---- MODULE Spec2Model ----
(***************************************************************************)
(* A model of youtube-feels-meter's backend.                               *)
(*                                                                         *)
(* Part 1: CacheService (src/backend/src/services/cache.service.js), the   *)
(* key/value cache with a per-entry TTL that is backed by Redis when a     *)
(* Redis URL is configured and reachable and by two in-process Maps        *)
(* (memoryCache, ttlMap) otherwise.                                        *)
(*                                                                         *)
(* Time.  The code compares Date.now() (ms) with Date.now()+ttlSeconds*1000*)
(* The model's clock `now` counts whole seconds, so the factor 1000 that   *)
(* scales both sides of every comparison is left out.                      *)
(*                                                                         *)
(* Values.  A cached value is an integer: 0 stands for the falsy JSON      *)
(* values (0, "", false), 1..MaxVal for truthy ones; Null is null.        *)
(*                                                                         *)
(* Asynchrony.  An operation on the in-process path contains no await and  *)
(* is one atomic step.  An operation on the Redis path awaits the Redis    *)
(* reply: it is issued (Issue) and later completed (Complete), and any     *)
(* other step may happen in between.  node-redis sends the commands of one *)
(* client over one connection, in order: inflight is a FIFO queue.         *)
(***************************************************************************)
EXTENDS Integers, Sequences, FiniteSets, TLC

\* ---------------------------------------------------------------- bounds
\* The clock stops at MaxTime.
MaxTime == 2
\* The largest ttlSeconds argument.
MaxTtl == 1
\* The largest cached value.
MaxVal == 1
\* The most Redis-path operations awaiting their reply at once.
MaxInflight == 1
\* The most writes: one for each set, del and clear, one for each key of an
\* mset, one for each write of another writer on the Redis server.
MaxWrites == 2

\* ------------------------------------------------------------- constants
\* parseInt(process.env.CACHE_TTL || '2592000'): the default TTL, in seconds.
DefaultTtl == 2592000
\* `|| null`, `return null`: JavaScript's null as a result or a value.
Null == -1

Keys == {"k1", "k2"}
Values == 0 .. MaxVal
\* A ttlSeconds argument; 0 stands for every falsy argument (0, null, omitted).
TtlArgs == 0 .. MaxTtl
\* The argument of mget: an array of keys (here: every key, in either order).
KeyLists == {<<"k1", "k2">>, <<"k2", "k1">>}
\* The keys of the argument of mset, an object (here: one with every key; the
\* order of Object.entries does not matter, the keys being distinct).
KeySets == {<<"k1", "k2">>}

VARIABLES
    now,               \* Date.now(), in seconds
    initialized,       \* initialize() has run
    client,            \* this.client: "none" (null), "open", "closed" (after disconnect)
    isRedisAvailable,  \* this.isRedisAvailable
    memoryCache,       \* this.memoryCache: key -> value
    ttlMap,            \* this.ttlMap: key -> expiry time
    cleanupTimer,      \* the setInterval of startMemoryCacheTTLCleanup is running
    redis,             \* the Redis server's content: key -> [str, exp]
    inflight,          \* Redis-path operations awaiting their reply, oldest first
    ret,               \* the operation that has just completed, and its result
    writes,            \* history: the number of writes so far
    last               \* history: per key, the last completed set / del / clear

\* Part 2 (pure functions: utils/titleParser.js, utils/stringMatcher.js).
VARIABLES
    args,              \* the arguments of the function call under study
    result             \* what the call returned (Pending before it has run)

\* Part 3 (services/musicbrainz.service.js: the rate limit).
VARIABLES
    clock,             \* Date.now(), in milliseconds
    lastRequestTime,   \* this.lastRequestTime
    calls,             \* each call of the service: where it is, when its timer is due
    requests           \* history: the times at which requests were sent, in order

\* Part 4 (services/music-analysis.service.js, routes/analyze.routes.js,
\* routes/playlist.routes.js: the analysis of a video over the cache).
VARIABLES
    elapses,           \* history: the number of times the clock was advanced
    computed,          \* history: per video, the last result matchVideo worked out
    response           \* the last request served (and how many were), and the
                       \* video result it returned

\* Part 7 (YouTubeService.getAllPlaylistVideos).
VARIABLES
    paging             \* the call of getAllPlaylistVideos: where it is (pc), its
                       \* locals videos, pageToken and pageCount, and the size of
                       \* the pages that the API returns to it

fnVars == <<args, result>>
rateVars == <<clock, lastRequestTime, calls, requests>>
appVars == <<elapses, computed, response>>

\* The state of the parts of the program other than CacheService.
others == <<fnVars, rateVars, appVars, paging>>

\* No function call is under study.
NoArgs == [fn |-> "none"]
Pending == [done |-> FALSE]
NoCall == args = NoArgs /\ result = Pending

\* this.minRequestInterval = 1000
minRequestInterval == 1000
\* The concurrent calls of the MusicBrainz service.
MaxCalls == 3
Calls == 1 .. MaxCalls
\* The service as constructed, at a time when the process has been up for an
\* interval (Date.now() is far beyond lastRequestTime = 0).
RateIdle ==
    /\ clock = minRequestInterval
    /\ lastRequestTime = 0
    /\ calls = [c \in Calls |-> [pc |-> "idle", due |-> 0]]
    /\ requests = <<>>

\* feelsScore: 50 (`let feelsScore = 50`, `feelsScore: 50`): the neutral score.
NeutralScore == 50
\* A property that the object does not have (`result.feelsScore` of an
\* unmatched result).
Undefined == -2
\* The videos of the requests: v.id, v.title, v.channelTitle.
\*   "dash": artist and song are parsed, the track is looked up;
\*   "song": only a song is parsed (no channel), so no artist to look up;
\*   "none": nothing is parsed;
\*   "bad":  the title is not a string (title.toLowerCase is not a function).
NotAString == <<"42">>
Videos ==
    { [id |-> <<"dash">>, title |-> <<"b", " ", "-", " ", "y">>, channelTitle |-> <<>>],
      [id |-> <<"song">>, title |-> <<"y">>, channelTitle |-> <<>>],
      [id |-> <<"none">>, title |-> <<"(HD)">>, channelTitle |-> <<>>],
      [id |-> <<"bad">>, title |-> NotAString, channelTitle |-> <<>>] }
VideoIds == <<<<"dash">>, <<"song">>, <<"none">>, <<"bad">>>>
NeverComputed == [outcome |-> "never", at |-> 0, lookup |-> FALSE, ttl |-> 0]
NoResponse ==
    [count |-> 0, at |-> 0, route |-> "none", asked |-> <<>>, id |-> <<>>, status |-> 0, ran |-> FALSE, hit |-> FALSE,
     parsed |-> FALSE, lookup |-> FALSE, wrote |-> 0, threw |-> FALSE,
     cached |-> FALSE, matched |-> FALSE, feelsScore |-> Undefined,
     stored |-> Null, playlistHit |-> FALSE, prior |-> NeverComputed]
\* getAllPlaylistVideos is not running.
NoPaging == [pc |-> "idle", videos |-> <<>>, pageToken |-> <<"null">>, pageCount |-> 0,
             pageSize |-> 0]
\* No request has been served.
NoRequest ==
    /\ paging = NoPaging
    /\ elapses = 0
    /\ computed = [i \in {VideoIds[n] : n \in DOMAIN VideoIds} |-> NeverComputed]
    /\ response = NoResponse

\* The feels score of the track that the metadata services find (a value of
\* calculateFeelsScore other than the neutral one).
TrackScore == 80
\* The objects that the analysis keeps in the cache: a matchVideo result
\* ("result": matched, with feelsScore if matched) and a playlist analysis
\* ("analysis": { results, stats }, here the one video of results with its
\* matched and feelsScore).  The cache holds values as integers, so an object
\* is held as its number, above the plain values and so truthy.
StoredKinds == <<"result", "analysis">>
Scores == <<Undefined, NeutralScore, TrackScore>>
Objects ==
    [kind : {StoredKinds[n] : n \in DOMAIN StoredKinds},
     id : {VideoIds[n] : n \in DOMAIN VideoIds},
     matched : BOOLEAN,
     feelsScore : {Scores[n] : n \in DOMAIN Scores}]
Place(seq, x) == CHOOSE n \in DOMAIN seq : seq[n] = x
Code(o) ==
    MaxVal + Place(StoredKinds, o.kind)
      + Len(StoredKinds) * ((Place(VideoIds, o.id) - 1)
          + Len(VideoIds) * ((IF o.matched THEN 1 ELSE 0)
              + 2 * (Place(Scores, o.feelsScore) - 1)))
Decoded == [n \in {Code(o) : o \in Objects} |-> CHOOSE o \in Objects : Code(o) = n]
Decode(n) == Decoded[n]
\* The values that the cache is given.
Storable == Values \cup {Code(o) : o \in Objects}

cacheVars == <<now, initialized, client, isRedisAvailable, memoryCache, ttlMap,
               cleanupTimer, redis, inflight, ret, writes, last>>
vars == <<now, initialized, client, isRedisAvailable, memoryCache, ttlMap,
          cleanupTimer, redis, inflight, ret, writes, last, others>>

\* ------------------------------------------------------------ JavaScript
\* A value in a boolean context (`x || y`, `x ? a : b`).
Truthy(v) == v > 0

\* Map.set / Map.delete on a map kept as a function on its keys.
MapSet(m, k, v) == [x \in (DOMAIN m) \cup {k} |-> IF x = k THEN v ELSE m[x]]
MapDelete(m, ks) == [x \in (DOMAIN m) \ ks |-> m[x]]
EmptyMap == [x \in {} |-> 0]

\* JSON.stringify(value): the text stored in Redis.
JSONstringify(v) == IF v = Null THEN "null" ELSE ToString(v)
JsonTexts == {JSONstringify(v) : v \in Storable}
\* JSON.parse(text) of a well-formed text; it throws on any other text.
JsonValues == [s \in JsonTexts |-> CHOOSE v \in Storable : JSONstringify(v) = s]
JSONparse(s) == JsonValues[s]
\* Content some other writer left in Redis, which JSON.parse rejects.
Malformed == "{bad"

\* const ttl = ttlSeconds || parseInt(process.env.CACHE_TTL || '2592000')
EffectiveTtl(t) == IF t # 0 THEN t ELSE DefaultTtl

\* if (this.isRedisAvailable && this.client)
RedisMode == isRedisAvailable /\ client # "none"

\* ------------------------------------------------------- the result `ret`
\* op: the operation; keys: its key arguments; vals: the value(s) it returned
\* (get, mget); ok: the boolean it returned (exists, set, mset); threw: it
\* rejected; path: "mem" (in-process path), "redis" (Redis answered),
\* "caught" (the catch branch ran); overlap: a write completed between the
\* operation's call and its return.
NoRet == [op |-> "none", keys |-> <<>>, vals |-> <<>>, ok |-> FALSE,
          threw |-> FALSE, path |-> "mem", overlap |-> FALSE]
Result(op, ks, vs, ok, how) ==
    [op |-> op, keys |-> ks, vals |-> vs, ok |-> ok, threw |-> FALSE,
     path |-> how.path, overlap |-> how.overlap]
\* How an operation ran: on the in-process path, or from command c's reply.
InProcess == [path |-> "mem", overlap |-> FALSE]
Answered(c) == [path |-> "redis", overlap |-> c.overlap]
Caught(c) == [path |-> "caught", overlap |-> c.overlap]

\* History of key k: nothing yet ("none"); the last completed set or mset
\* ("set", "mset": its value, the time it completed, its ttl argument, whether it went
\* to the in-process map, whether it replaced an entry there); a del ("del");
\* a clear ("clear"); a write by another writer on the Redis server ("ext").
History(kind) ==
    [kind |-> kind, val |-> Null, at |-> 0, ttl |-> 0, mem |-> FALSE, over |-> FALSE]
WasSet(v, t, mem, over) ==
    [kind |-> "set", val |-> v, at |-> now, ttl |-> t, mem |-> mem, over |-> over]
WasMSet(v, t, mem, over) == [WasSet(v, t, mem, over) EXCEPT !.kind = "mset"]
\* A write has completed while these commands await their reply.
Overlapped(q) == [i \in DOMAIN q |-> [q[i] EXCEPT !.overlap = TRUE]]

\* ----------------------------------------------------- in-process helpers
\* Mutant of Expired: the read does not look at ttlMap (as exists does not).
ExpiredUnchecked(k) == FALSE

\* getFromMemory: `ttlEntry && Date.now() > ttlEntry`
Expired(k) == k \in DOMAIN ttlMap /\ ttlMap[k] # 0 /\ now > ttlMap[k]

\* getFromMemory(key): the value returned ...
getFromMemory(k) ==
    IF Expired(k) THEN Null
    ELSE IF k \in DOMAIN memoryCache /\ Truthy(memoryCache[k]) THEN memoryCache[k]
    ELSE Null
\* ... and the maps it leaves, for the keys ks read one after the other.
MemoryAfterGet(ks) == MapDelete(memoryCache, {k \in ks : Expired(k)})
TtlAfterGet(ks) == MapDelete(ttlMap, {k \in ks : Expired(k)})

Range(s) == {s[i] : i \in DOMAIN s}

\* ------------------------------------------------------------------ Init
CacheInit ==
    /\ now = 0
    /\ initialized = FALSE
    /\ client = "none"
    /\ isRedisAvailable = FALSE
    /\ memoryCache = EmptyMap
    /\ ttlMap = EmptyMap
    /\ cleanupTimer = FALSE
    /\ redis = EmptyMap
    /\ inflight = <<>>
    /\ ret = NoRet
    /\ writes = 0
    /\ last = [k \in Keys |-> History("none")]

\* The state after construction, with no other part of the program at work.
Init == CacheInit /\ NoCall /\ RateIdle /\ NoRequest

\* ------------------------------------------------------------ initialize
\* initialize(): url = REDIS_URL is set; connectOk = client.connect() resolves
\* (the 'connect' handler has then set isRedisAvailable).
Initialize(url, connectOk) ==
    /\ ~initialized
    /\ initialized' = TRUE
    /\ IF ~url
       THEN UNCHANGED <<client, isRedisAvailable, cleanupTimer>>
       ELSE /\ client' = IF connectOk THEN "open" ELSE "none"
            /\ isRedisAvailable' = connectOk
            /\ cleanupTimer' = TRUE
    /\ ret' = NoRet
    /\ UNCHANGED <<now, memoryCache, ttlMap, redis, inflight, writes, last>>
    /\ UNCHANGED others

\* client.on('error'): the connection is lost.
OnRedisError ==
    /\ client = "open"
    /\ isRedisAvailable
    /\ isRedisAvailable' = FALSE
    /\ ret' = NoRet
    /\ UNCHANGED <<now, initialized, client, memoryCache, ttlMap, cleanupTimer,
                   redis, inflight, writes, last>>
    /\ UNCHANGED others

\* client.on('connect'): node-redis has reconnected.
OnRedisConnect ==
    /\ client = "open"
    /\ ~isRedisAvailable
    /\ isRedisAvailable' = TRUE
    /\ ret' = NoRet
    /\ UNCHANGED <<now, initialized, client, memoryCache, ttlMap, cleanupTimer,
                   redis, inflight, writes, last>>
    /\ UNCHANGED others

\* disconnect(): client.disconnect() rejects on a client that is already
\* closed, and the rejection is not caught.
Disconnect ==
    /\ initialized
    /\ client # "none"
    /\ IF client = "closed"
       THEN /\ ret' = [Result("disconnect", <<>>, <<>>, FALSE, InProcess)
                          EXCEPT !.threw = TRUE]
            /\ UNCHANGED <<client, isRedisAvailable>>
       ELSE /\ client' = "closed"
            /\ isRedisAvailable' = FALSE
            /\ ret' = NoRet
    /\ UNCHANGED <<now, initialized, memoryCache, ttlMap, cleanupTimer, redis,
                   inflight, writes, last>>
    /\ UNCHANGED others

\* Time passes.  The Redis server drops the keys whose SETEX time is up (an
\* exp of 0: a key written without a TTL).
Tick ==
    /\ now < MaxTime
    /\ now' = now + 1
    /\ redis' = MapDelete(redis, {k \in DOMAIN redis :
                                     redis[k].exp # 0 /\ now + 1 >= redis[k].exp})
    /\ ret' = NoRet
    /\ UNCHANGED <<initialized, client, isRedisAvailable, memoryCache, ttlMap,
                   cleanupTimer, inflight, writes, last>>
    /\ UNCHANGED others

\* The callback of startMemoryCacheTTLCleanup's setInterval.  The interval
\* (60 s) is longer than the model's clock runs, so the callback's phase is
\* left open: it may run at any time once the timer is started.
Sweep ==
    /\ cleanupTimer
    /\ \E k \in DOMAIN ttlMap : now > ttlMap[k]    \* otherwise it changes nothing
    /\ memoryCache' = MapDelete(memoryCache, {k \in DOMAIN ttlMap : now > ttlMap[k]})
    /\ ttlMap' = MapDelete(ttlMap, {k \in DOMAIN ttlMap : now > ttlMap[k]})
    /\ ret' = NoRet
    /\ UNCHANGED <<now, initialized, client, isRedisAvailable, cleanupTimer, redis,
                   inflight, writes, last>>
    /\ UNCHANGED others


\* Another writer leaves content under key k that is not JSON, without a TTL.
ExternalWrite(k) ==
    /\ client # "none"
    /\ writes < MaxWrites
    /\ writes' = writes + 1
    /\ redis' = MapSet(redis, k, [str |-> Malformed, exp |-> 0])
    /\ last' = [last EXCEPT ![k] = History("ext")]
    /\ inflight' = Overlapped(inflight)
    /\ ret' = NoRet
    /\ UNCHANGED <<now, initialized, client, isRedisAvailable, memoryCache, ttlMap,
                   cleanupTimer>>
    /\ UNCHANGED others

\* ------------------------------------------------------ the Redis server
\* client.get(key): the stored text, or "" for the null reply of a missing key.
RedisGet(k) == IF k \in DOMAIN redis THEN redis[k].str ELSE ""
\* client.setEx(key, ttl, text)
RedisSetEx(r, k, ttl, text) == MapSet(r, k, [str |-> text, exp |-> now + ttl])
\* A reply that JSON.parse is given (it is truthy) and rejects.
Unparsable(text) == text # "" /\ text \notin JsonTexts

\* ------------------------------------------------- the in-process Maps
\* setInMemory(key, value, ttlSeconds), with ttlSeconds already defaulted.
setInMemoryCache(m, k, v) == MapSet(m, k, v)
\* Mutant of setInMemory: the expiry is not recorded.
setInMemoryTtlMissing(m, k, ttl) == m
setInMemoryTtl(m, k, ttl) == MapSet(m, k, now + ttl)

Index(ks, x) == CHOOSE i \in DOMAIN ks : ks[i] = x
\* for (const [key, value] of Object.entries(keyValuePairs)) this.setInMemory(...)
setAllInMemoryCache(m, ks, vs) ==
    [x \in (DOMAIN m) \cup Range(ks) |->
        IF x \in Range(ks) THEN vs[Index(ks, x)] ELSE m[x]]
setAllInMemoryTtl(m, ks, ttl) ==
    [x \in (DOMAIN m) \cup Range(ks) |-> IF x \in Range(ks) THEN now + ttl ELSE m[x]]

\* ------------------------------------------------------------ operations
\* A call of a cache operation.  On the Redis path the command is sent and
\* the operation awaits the reply (Complete).
Command(op, ks, vs, t) ==
    [op |-> op, keys |-> ks, vals |-> vs, ttl |-> EffectiveTtl(t), targ |-> t,
     overlap |-> FALSE]
Reading == initialized /\ UNCHANGED writes
Writing(n) == initialized /\ writes + n <= MaxWrites /\ writes' = writes + n
Issue(c) ==
    /\ Len(inflight) < MaxInflight
    /\ inflight' = Append(inflight, c)
    /\ ret' = NoRet
    /\ UNCHANGED <<now, initialized, client, isRedisAvailable, memoryCache, ttlMap,
                   cleanupTimer, redis, last>>

\* return this.getFromMemory(key): lines 61 and 65
GetFromMemory(k, how) ==
    /\ ret' = Result("get", <<k>>, <<getFromMemory(k)>>, FALSE, how)
    /\ memoryCache' = MemoryAfterGet({k})
    /\ ttlMap' = TtlAfterGet({k})

\* get(key)
Get(k) ==
    /\ Reading
    /\ IF RedisMode
       THEN Issue(Command("get", <<k>>, <<>>, 0))
       ELSE /\ GetFromMemory(k, InProcess)
            /\ UNCHANGED <<now, initialized, client, isRedisAvailable, cleanupTimer,
                           redis, inflight, last>>
    /\ UNCHANGED others

\* Mutant of GetReply: a reply that JSON.parse rejects is answered with null,
\* without the fallback to the in-process map.
GetReplyMiss(c, fails) ==
    LET k == c.keys[1] IN
    /\ IF fails
       THEN GetFromMemory(k, Caught(c))
       ELSE /\ ret' = IF Unparsable(RedisGet(k))
                      THEN Result("get", <<k>>, <<Null>>, FALSE, Caught(c))
                      ELSE Result("get", <<k>>,
                             <<IF RedisGet(k) = "" THEN Null ELSE JSONparse(RedisGet(k))>>,
                             FALSE, Answered(c))
            /\ UNCHANGED <<memoryCache, ttlMap>>
    /\ inflight' = Tail(inflight)
    /\ UNCHANGED <<redis, last>>

\* get(key), from the reply on: value ? JSON.parse(value) : null, and the catch.
GetReply(c, fails) ==
    LET k == c.keys[1] IN
    /\ IF fails \/ Unparsable(RedisGet(k))
       THEN GetFromMemory(k, Caught(c))
       ELSE /\ ret' = Result("get", <<k>>,
                        <<IF RedisGet(k) = "" THEN Null ELSE JSONparse(RedisGet(k))>>,
                        FALSE, Answered(c))
            /\ UNCHANGED <<memoryCache, ttlMap>>
    /\ inflight' = Tail(inflight)
    /\ UNCHANGED <<redis, last>>

\* return this.setInMemory(key, value, ttl): lines 81 and 85
SetInMemory(k, v, ttl, targ, how) ==
    /\ memoryCache' = setInMemoryCache(memoryCache, k, v)
    /\ ttlMap' = setInMemoryTtl(ttlMap, k, ttl)
    /\ last' = [last EXCEPT ![k] = WasSet(v, targ, TRUE, k \in DOMAIN memoryCache)]
    /\ ret' = Result("set", <<k>>, <<>>, TRUE, how)

\* set(key, value, ttlSeconds)
Set(k, v, t) ==
    /\ Writing(1)
    /\ IF RedisMode
       THEN Issue(Command("set", <<k>>, <<v>>, t))
       ELSE /\ SetInMemory(k, v, EffectiveTtl(t), t, InProcess)
            /\ inflight' = Overlapped(inflight)
            /\ UNCHANGED <<now, initialized, client, isRedisAvailable, cleanupTimer,
                           redis>>
    /\ UNCHANGED others

\* set, from the reply on.
SetReply(c, fails) ==
    LET k == c.keys[1]
        v == c.vals[1] IN
    /\ IF fails
       THEN /\ SetInMemory(k, v, c.ttl, c.targ, Caught(c))
            /\ UNCHANGED redis
       ELSE /\ redis' = RedisSetEx(redis, k, c.ttl, JSONstringify(v))
            /\ last' = [last EXCEPT ![k] = WasSet(v, c.targ, FALSE, FALSE)]
            /\ ret' = Result("set", <<k>>, <<>>, TRUE, Answered(c))
            /\ UNCHANGED <<memoryCache, ttlMap>>
    /\ inflight' = Overlapped(Tail(inflight))

\* this.memoryCache.delete(key); this.ttlMap.delete(key): lines 100-101
DeleteFromMemory(k, how) ==
    /\ memoryCache' = MapDelete(memoryCache, {k})
    /\ ttlMap' = MapDelete(ttlMap, {k})
    /\ last' = [last EXCEPT ![k] = History("del")]
    /\ ret' = Result("del", <<k>>, <<>>, FALSE, how)

\* del(key)
Del(k) ==
    /\ Writing(1)
    /\ IF RedisMode
       THEN Issue(Command("del", <<k>>, <<>>, 0))
       ELSE /\ DeleteFromMemory(k, InProcess)
            /\ inflight' = Overlapped(inflight)
            /\ UNCHANGED <<now, initialized, client, isRedisAvailable, cleanupTimer,
                           redis>>
    /\ UNCHANGED others

\* Mutant of DelReply: client.del is awaited outside any try, and its
\* rejection leaves del.
DelReplyUncaught(c, fails) ==
    LET k == c.keys[1] IN
    IF fails
    THEN /\ ret' = [Result("del", <<k>>, <<>>, FALSE, Caught(c)) EXCEPT !.threw = TRUE]
         /\ inflight' = Tail(inflight)
         /\ UNCHANGED <<memoryCache, ttlMap, redis, last>>
    ELSE /\ redis' = MapDelete(redis, {k})
         /\ DeleteFromMemory(k, Answered(c))
         /\ inflight' = Overlapped(Tail(inflight))

\* del, from the reply on: a failed client.del is logged and nothing more.
DelReply(c, fails) ==
    LET k == c.keys[1] IN
    /\ redis' = IF fails THEN redis ELSE MapDelete(redis, {k})
    /\ DeleteFromMemory(k, IF fails THEN Caught(c) ELSE Answered(c))
    /\ inflight' = Overlapped(Tail(inflight))

\* return this.memoryCache.has(key): lines 113 and 117
HasInMemory(k) == k \in DOMAIN memoryCache

\* exists(key)
Exists(k) ==
    /\ Reading
    /\ IF RedisMode
       THEN Issue(Command("exists", <<k>>, <<>>, 0))
       ELSE /\ ret' = Result("exists", <<k>>, <<>>, HasInMemory(k), InProcess)
            /\ UNCHANGED <<now, initialized, client, isRedisAvailable, memoryCache,
                           ttlMap, cleanupTimer, redis, inflight, last>>
    /\ UNCHANGED others

\* exists, from the reply on: await this.client.exists(key) === 1
ExistsReply(c, fails) ==
    LET k == c.keys[1] IN
    /\ ret' = IF fails
              THEN Result("exists", <<k>>, <<>>, HasInMemory(k), Caught(c))
              ELSE Result("exists", <<k>>, <<>>, k \in DOMAIN redis, Answered(c))
    /\ inflight' = Tail(inflight)
    /\ UNCHANGED <<memoryCache, ttlMap, redis, last>>

\* return keys.map(key => this.getFromMemory(key)): lines 130 and 134
MGetFromMemory(ks, how) ==
    /\ ret' = Result("mget", ks, [i \in DOMAIN ks |-> getFromMemory(ks[i])], FALSE, how)
    /\ memoryCache' = MemoryAfterGet(Range(ks))
    /\ ttlMap' = TtlAfterGet(Range(ks))

\* mget(keys)
MGet(ks) ==
    /\ Reading
    /\ IF RedisMode
       THEN Issue(Command("mget", ks, <<>>, 0))
       ELSE /\ MGetFromMemory(ks, InProcess)
            /\ UNCHANGED <<now, initialized, client, isRedisAvailable, cleanupTimer,
                           redis, inflight, last>>
    /\ UNCHANGED others

\* mget, from the reply on: values.map(v => v ? JSON.parse(v) : null)
MGetReply(c, fails) ==
    LET ks == c.keys IN
    /\ IF fails \/ \E i \in DOMAIN ks : Unparsable(RedisGet(ks[i]))
       THEN MGetFromMemory(ks, Caught(c))
       ELSE /\ ret' = Result("mget", ks,
                        [i \in DOMAIN ks |-> IF RedisGet(ks[i]) = "" THEN Null
                                             ELSE JSONparse(RedisGet(ks[i]))],
                        FALSE, Answered(c))
            /\ UNCHANGED <<memoryCache, ttlMap>>
    /\ inflight' = Tail(inflight)
    /\ UNCHANGED <<redis, last>>

\* the setInMemory loop of mset: lines 153-155 and 160-162
MSetInMemory(ks, vs, ttl, targ, how) ==
    /\ memoryCache' = setAllInMemoryCache(memoryCache, ks, vs)
    /\ ttlMap' = setAllInMemoryTtl(ttlMap, ks, ttl)
    /\ last' = [x \in Keys |->
                  IF x \in Range(ks)
                  THEN WasMSet(vs[Index(ks, x)], targ, TRUE, x \in DOMAIN memoryCache)
                  ELSE last[x]]
    /\ ret' = Result("mset", ks, <<>>, TRUE, how)

\* mset(keyValuePairs, ttlSeconds)
MSet(ks, vs, t) ==
    /\ Writing(Len(ks))
    /\ IF RedisMode
       THEN Issue(Command("mset", ks, vs, t))
       ELSE /\ MSetInMemory(ks, vs, EffectiveTtl(t), t, InProcess)
            /\ inflight' = Overlapped(inflight)
            /\ UNCHANGED <<now, initialized, client, isRedisAvailable, cleanupTimer,
                           redis>>
    /\ UNCHANGED others

\* mset, from the reply on: the MULTI pipeline of setEx commands ran, or not.
MSetReply(c, fails) ==
    LET ks == c.keys
        vs == c.vals IN
    /\ IF fails
       THEN /\ MSetInMemory(ks, vs, c.ttl, c.targ, Caught(c))
            /\ UNCHANGED redis
       ELSE /\ redis' = [x \in (DOMAIN redis) \cup Range(ks) |->
                           IF x \in Range(ks)
                           THEN [str |-> JSONstringify(vs[Index(ks, x)]),
                                 exp |-> now + c.ttl]
                           ELSE redis[x]]
            /\ last' = [x \in Keys |->
                          IF x \in Range(ks)
                          THEN WasMSet(vs[Index(ks, x)], c.targ, FALSE, FALSE)
                          ELSE last[x]]
            /\ ret' = Result("mset", ks, <<>>, TRUE, Answered(c))
            /\ UNCHANGED <<memoryCache, ttlMap>>
    /\ inflight' = Overlapped(Tail(inflight))

\* this.memoryCache.clear(); this.ttlMap.clear(): lines 178-179
ClearMemory(how) ==
    /\ memoryCache' = EmptyMap
    /\ ttlMap' = EmptyMap
    /\ last' = [x \in Keys |-> History("clear")]
    /\ ret' = Result("clear", <<>>, <<>>, FALSE, how)

\* clear()
Clear ==
    /\ Writing(1)
    /\ IF RedisMode
       THEN Issue(Command("clear", <<>>, <<>>, 0))
       ELSE /\ ClearMemory(InProcess)
            /\ inflight' = Overlapped(inflight)
            /\ UNCHANGED <<now, initialized, client, isRedisAvailable, cleanupTimer,
                           redis>>
    /\ UNCHANGED others

\* clear, from the reply on: a failed client.flushAll is logged and nothing more.
ClearReply(c, fails) ==
    /\ redis' = IF fails THEN redis ELSE EmptyMap
    /\ ClearMemory(IF fails THEN Caught(c) ELSE Answered(c))
    /\ inflight' = Overlapped(Tail(inflight))

\* The oldest awaited Redis command is answered (fails: it is rejected, and
\* the Redis server has not run it), and the operation runs to its end.
Complete(fails) ==
    /\ inflight # <<>>
    /\ LET c == Head(inflight) IN
       CASE c.op = "get" -> GetReply(c, fails)
         [] c.op = "set" -> SetReply(c, fails)
         [] c.op = "del" -> DelReply(c, fails)
         [] c.op = "exists" -> ExistsReply(c, fails)
         [] c.op = "mget" -> MGetReply(c, fails)
         [] c.op = "mset" -> MSetReply(c, fails)
         [] c.op = "clear" -> ClearReply(c, fails)
    /\ UNCHANGED <<now, initialized, client, isRedisAvailable, cleanupTimer, writes>>
    /\ UNCHANGED others

Next ==
    \/ \E url \in BOOLEAN, ok \in BOOLEAN : Initialize(url, ok)
    \/ OnRedisError
    \/ OnRedisConnect
    \/ Disconnect
    \/ Tick
    \/ Sweep
    \/ \E k \in Keys : ExternalWrite(k)
    \/ \E k \in Keys : Get(k)
    \/ \E k \in Keys, v \in Values, t \in TtlArgs : Set(k, v, t)
    \/ \E k \in Keys : Del(k)
    \/ \E k \in Keys : Exists(k)
    \/ \E ks \in KeyLists : MGet(ks)
    \/ \E ks \in KeySets, t \in TtlArgs : \E vs \in [DOMAIN ks -> Values] : MSet(ks, vs, t)
    \/ Clear
    \/ \E f \in BOOLEAN : Complete(f)

Spec == Init /\ [][Next]_vars

\* ================================================================ claims
\* The operation that has just returned is op(k).
Did(op, k) == ret.op = op /\ ret.keys = <<k>>
\* The last write of key k that completed was a set or an mset.
IsSet(h) == h.kind \in {"set", "mset"}
\* Less / more than the TTL of the set h has passed since it completed.
TtlRunning(h) == now < h.at + EffectiveTtl(h.ttl)
TtlElapsed(h) == now > h.at + EffectiveTtl(h.ttl)
CacheOps == {"get", "set", "del", "exists", "mget", "mset", "clear"}

\* C1: in in-process mode, a get(k) after set(k, v, ttl), ttl > 0, before ttl
\* seconds have passed and with no other write of k in between, returns v.
\* (The code returns null when v is falsy.)
C1_GetReturnsWhatWasSet ==
    \A k \in Keys :
        (/\ Did("get", k) /\ ret.path = "mem"
         /\ IsSet(last[k]) /\ last[k].mem
         /\ last[k].ttl > 0 /\ now < last[k].at + last[k].ttl)
        => ret.vals[1] = last[k].val

C3_ExpiredEntryInvisible ==
    \A k \in Keys :
        (/\ ret.path = "mem"
         /\ IsSet(last[k]) /\ last[k].mem
         /\ TtlElapsed(last[k]))
        => /\ Did("get", k) => ret.vals[1] = Null
           /\ Did("exists", k) => ~ret.ok
           /\ ret.op = "mget" =>
                  \A i \in DOMAIN ret.keys : ret.keys[i] = k => ret.vals[i] = Null

\* C4: after initialize(), in every configuration, an expired entry of the
\* in-process map is removed by the periodic sweep even if it is never read:
\* whenever such an entry sits in the map, the sweep is there to run.
\* (Without a Redis URL initialize() returns before it starts the timer.)
C4_ExpiredEntrySwept ==
    (initialized /\ \E k \in DOMAIN ttlMap : now > ttlMap[k]) => ENABLED Sweep

\* C5: a get(k) called after set(k, v, ttl) completed, before the TTL elapses
\* and with no other write of k in between, returns v whatever mode the set
\* and the get ran in.  Stated for truthy v, so that what fails is the mode's
\* doing, not C1's.
C5_ReadsIgnoreMode ==
    \A k \in Keys :
        (/\ Did("get", k) /\ ~ret.overlap
         /\ IsSet(last[k]) /\ Truthy(last[k].val)
         /\ TtlRunning(last[k]))
        => ret.vals[1] = last[k].val

\* C6: no cache operation raises when the Redis call inside it fails; set and
\* mset then leave their keys in the in-process map.
C6_NoOperationRaises ==
    /\ ret.op \in CacheOps => ~ret.threw
    /\ (ret.op \in {"set", "mset"} /\ ret.path = "caught")
           => Range(ret.keys) \subseteq DOMAIN memoryCache

\* C6's case: a cache operation has returned after its Redis call failed.
C6_Witness == ret.op \in CacheOps /\ ret.path = "caught" /\ ~ret.threw

C8_OverwriteReplacesBoth ==
    \A k \in Keys :
        (/\ ret.path = "mem"
         /\ last[k].kind = "set" /\ last[k].mem /\ last[k].over)
        => /\ TtlRunning(last[k]) =>
                  /\ Did("get", k) => ret.vals[1] = last[k].val
                  /\ Did("exists", k) => ret.ok
           /\ TtlElapsed(last[k]) =>
                  /\ Did("get", k) => ret.vals[1] = Null
                  /\ Did("exists", k) => ~ret.ok

\* C9: after del(k) has completed, and until the next set of k, get(k)
\* returns null and exists(k) false, in every mode and whether or not the
\* Redis call of the del failed.  (Stated for a read that no write overlaps
\* and a key that no other writer has touched.)
C9_DeletedStaysDeleted ==
    \A k \in Keys :
        (last[k].kind = "del" /\ ~ret.overlap /\ RedisGet(k) # Malformed)
        => /\ Did("get", k) => ret.vals[1] = Null
           /\ Did("exists", k) => ~ret.ok

\* C10: once sets on distinct keys have all completed, get of each key
\* returns the value written for it.  (Read within the keys' TTLs.)
C10_EverySetReadBack ==
    (/\ \A k \in Keys : last[k].kind = "set" /\ TtlRunning(last[k])
     /\ inflight = <<>> /\ ~ret.overlap
     /\ ret.op = "get")
    => ret.vals[1] = last[ret.keys[1]].val

\* ======================================================= Part 2: strings
\* A string is a sequence of tokens.  A token is one character, or the text
\* of one bracketed decoration or channel word taken as a whole; the inputs
\* are built so that no token's text contains another input token's text,
\* hence matching and inclusion on tokens are matching and inclusion on text.
\* null is NullString; '' is <<>>.
NullString == <<"null">>
\* A string in a boolean context: null and '' are falsy.
Present(s) == s # NullString /\ s # <<>>

\* \s
Whitespace == {" ", "\t"}

\* COMMON_SUFFIXES, in the order of the source.
COMMON_SUFFIXES ==
    << "(official video)", "(official music video)", "(official audio)",
       "(lyric video)", "(lyrics)", "[official video]", "[official music video]",
       "[official audio]", "(music video)", "(audio)", "(hd)", "(4k)",
       "(explicit)", "(clean)", "(radio edit)", "(extended)", "(remix)",
       "(remastered)" >>

\* String.prototype.toLowerCase, on the tokens the inputs use.
LowerCaseOf(c) ==
    CASE c = "B" -> "b"
      [] c = "Y" -> "y"
      [] c = "(HD)" -> "(hd)"
      [] c = "(4K)" -> "(4k)"
      [] c = "(Remix)" -> "(remix)"
      [] c = "VEVO" -> "vevo"
      [] c = "Music" -> "music"
      [] c = "Metal" -> "metal"
      [] OTHER -> c
toLowerCase(s) == [i \in DOMAIN s |-> LowerCaseOf(s[i])]

\* The number of characters of a token's text, and String.prototype.length.
TokenLength(c) ==
    CASE c \in {"(hd)", "(4k)", "(HD)", "(4K)", "vevo", "VEVO"} -> 4
      [] c \in {"(remix)", "(Remix)"} -> 7
      [] c \in {"music", "Music"} -> 5
      [] OTHER -> 1
RECURSIVE length(_)
length(s) == IF s = <<>> THEN 0 ELSE TokenLength(Head(s)) + length(Tail(s))

\* String.prototype.trim
RECURSIVE trimStart(_)
trimStart(s) ==
    IF s # <<>> /\ Head(s) \in Whitespace THEN trimStart(Tail(s)) ELSE s
RECURSIVE trimEnd(_)
trimEnd(s) ==
    IF s # <<>> /\ s[Len(s)] \in Whitespace
    THEN trimEnd(SubSeq(s, 1, Len(s) - 1)) ELSE s
trim(s) == trimEnd(trimStart(s))

\* .replace(/\s+/g, ' ')
RECURSIVE collapseWhitespace(_)
collapseWhitespace(s) ==
    IF s = <<>> THEN <<>>
    ELSE IF Head(s) \in Whitespace
         THEN <<" ">> \o collapseWhitespace(trimStart(s))
         ELSE <<Head(s)>> \o collapseWhitespace(Tail(s))

\* String.prototype.includes
includes(s, part) ==
    \E i \in 0 .. (Len(s) - Len(part)) : SubSeq(s, i + 1, i + Len(part)) = part

\* The index of the first token c of s, 0 when there is none.
IndexOf(s, c) ==
    IF \E i \in DOMAIN s : s[i] = c
    THEN CHOOSE i \in DOMAIN s : s[i] = c /\ \A j \in 1 .. (i - 1) : s[j] # c
    ELSE 0

\* ------------------------------------------------- utils/titleParser.js
\* cleaned.replace(new RegExp(suffix + '\\s*$', 'gi'), ''): the suffix is cut
\* when only whitespace follows it, and that whitespace with it.
removeSuffix(s, suffix) ==
    LET t == trimEnd(s) IN
    IF t # <<>> /\ t[Len(t)] = suffix THEN SubSeq(t, 1, Len(t) - 1) ELSE s

\* for (const suffix of COMMON_SUFFIXES) ...: the suffixes from the i-th on.
RECURSIVE removeSuffixes(_, _)
removeSuffixes(s, i) ==
    IF i > Len(COMMON_SUFFIXES) THEN s
    ELSE removeSuffixes(removeSuffix(s, COMMON_SUFFIXES[i]), i + 1)

\* cleanTitle(title)
cleanTitle(title) ==
    collapseWhitespace(trim(removeSuffixes(toLowerCase(title), 1)))

\* Confidences are counted in tenths: 0.5 is 5.
\* calculateConfidence(artist, song, channelTitle)
calculateConfidence(artist, song, channelTitle) ==
    LET differ == IF Present(artist) /\ Present(song)
                     /\ toLowerCase(artist) # toLowerCase(song) THEN 2 ELSE 0
        channel == IF Present(artist) /\ Present(channelTitle)
                      /\ (\/ includes(toLowerCase(channelTitle), toLowerCase(artist))
                          \/ includes(toLowerCase(artist), toLowerCase(channelTitle)))
                   THEN 2 ELSE 0
        long == IF Present(artist) /\ Present(song)
                   /\ length(artist) > 2 /\ length(song) > 2 THEN 1 ELSE 0
        confidence == 5 + differ + channel + long
    IN IF confidence < 10 THEN confidence ELSE 10

\* The text a greedy (.+) takes after \s*: what follows the whitespace, or
\* the last whitespace character when nothing follows it.
RestGroup(rest) ==
    IF trimStart(rest) # <<>> THEN trimStart(rest) ELSE <<rest[Len(rest)]>>
NoMatch == [ok |-> FALSE, g1 |-> <<>>, g2 |-> <<>>]

\* cleaned.match(/^([^c]+)\s*c\s*(.+)$/) for the separator c: the first c,
\* with something before it and something after it.
separatorMatch(cleaned, c) ==
    LET i == IndexOf(cleaned, c) IN
    IF i > 1 /\ i < Len(cleaned)
    THEN [ok |-> TRUE, g1 |-> SubSeq(cleaned, 1, i - 1),
          g2 |-> RestGroup(SubSeq(cleaned, i + 1, Len(cleaned)))]
    ELSE NoMatch

\* The places of a "by" that /^(.+)\s+by\s+(.+)$/i can take: whitespace on
\* both sides, a character before the one and a character after the other.
ByPlaces(cleaned) ==
    {p \in 3 .. (Len(cleaned) - 3) :
        /\ cleaned[p] = "b" /\ cleaned[p + 1] = "y"
        /\ cleaned[p - 1] \in Whitespace /\ cleaned[p + 2] \in Whitespace}

\* cleaned.match(byPattern): the greedy first group leaves the last such "by".
byMatch(cleaned) ==
    IF ByPlaces(cleaned) = {} THEN NoMatch
    ELSE LET p == CHOOSE q \in ByPlaces(cleaned) : \A r \in ByPlaces(cleaned) : r <= q
         IN [ok |-> TRUE, g1 |-> SubSeq(cleaned, 1, p - 2),
             g2 |-> RestGroup(SubSeq(cleaned, p + 3, Len(cleaned)))]

\* .replace(/word$/i, '')
removeWord(s, word) ==
    IF s # <<>> /\ LowerCaseOf(s[Len(s)]) = word THEN SubSeq(s, 1, Len(s) - 1) ELSE s
\* channelTitle.replace(/vevo$/i, '').replace(/official$/i, '').replace(/music$/i, '').trim()
cleanChannel(channelTitle) ==
    trim(removeWord(removeWord(removeWord(channelTitle, "vevo"), "official"), "music"))

\* What parseVideoTitle returns; pattern names the return statement taken.
Parsed(artist, song, confidence, pattern) ==
    [artist |-> artist, song |-> song, confidence |-> confidence, pattern |-> pattern]
\* The return of each of patterns 1 to 4: artist and song trimmed.
Extracted(artist, song, channelTitle, pattern) ==
    Parsed(trim(artist), trim(song),
           calculateConfidence(trim(artist), trim(song), channelTitle), pattern)

\* Mutant of parseVideoTitle's order: the colon pattern is tried before the
\* dash pattern.
parseCleanedColonFirst(cleaned, channelTitle) ==
    LET dash == separatorMatch(cleaned, "-")
        by == byMatch(cleaned)
        colon == separatorMatch(cleaned, ":")
        pipe == separatorMatch(cleaned, "|")
    IN  IF colon.ok THEN Extracted(colon.g1, colon.g2, channelTitle, "colon")
        ELSE IF dash.ok THEN Extracted(dash.g1, dash.g2, channelTitle, "dash")
        ELSE IF by.ok THEN Extracted(by.g2, by.g1, channelTitle, "by")
        ELSE IF pipe.ok THEN Extracted(pipe.g1, pipe.g2, channelTitle, "pipe")
        ELSE IF Present(channelTitle)
             THEN Parsed(cleanChannel(channelTitle), cleaned, 4, "channel")
        ELSE Parsed(NullString, cleaned, 3, "last")

\* parseVideoTitle from `const cleaned = cleanTitle(title)` on.
parseCleaned(cleaned, channelTitle) ==
    LET dash == separatorMatch(cleaned, "-")
        by == byMatch(cleaned)
        colon == separatorMatch(cleaned, ":")
        pipe == separatorMatch(cleaned, "|")
    IN  IF dash.ok THEN Extracted(dash.g1, dash.g2, channelTitle, "dash")
        ELSE IF by.ok THEN Extracted(by.g2, by.g1, channelTitle, "by")
        ELSE IF colon.ok THEN Extracted(colon.g1, colon.g2, channelTitle, "colon")
        ELSE IF pipe.ok THEN Extracted(pipe.g1, pipe.g2, channelTitle, "pipe")
        ELSE IF Present(channelTitle)
             THEN Parsed(cleanChannel(channelTitle), cleaned, 4, "channel")
        ELSE Parsed(NullString, cleaned, 3, "last")

\* parseVideoTitle(title, channelTitle = '')
parseVideoTitle(title, channelTitle) ==
    IF ~Present(title) THEN Parsed(NullString, NullString, 0, "none")
    ELSE parseCleaned(cleanTitle(title), channelTitle)

\* ----------------------------------------------- utils/stringMatcher.js
\* The longest string given to the matcher.
MaxStringLength == 3
\* The most candidates given to findBestMatch.
MaxCandidates == 2

RECURSIVE Factorial(_)
Factorial(n) == IF n = 0 THEN 1 ELSE n * Factorial(n - 1)
\* A ratio r in [0, 1] is kept as the integer r * One.  One is a multiple of
\* every length up to MaxStringLength and of 2, so each 1 - distance / maxLength
\* and each mean of two ratios is exact; the results of JavaScript's doubles
\* are equal, or ordered, exactly as these integers are.
One == 2 * Factorial(MaxStringLength)

Min3(a, b, c) ==
    IF a <= b /\ a <= c THEN a ELSE IF b <= c THEN b ELSE c
Max(a, b) == IF a >= b THEN a ELSE b

\* matrix[i][j] of levenshteinDistance(str1, str2): i counts the characters
\* of str2, j those of str1.
RECURSIVE matrix(_, _, _, _)
matrix(str1, str2, i, j) ==
    IF i = 0 THEN j
    ELSE IF j = 0 THEN i
    ELSE IF str2[i] = str1[j] THEN matrix(str1, str2, i - 1, j - 1)
    ELSE Min3(matrix(str1, str2, i - 1, j - 1) + 1,
              matrix(str1, str2, i, j - 1) + 1,
              matrix(str1, str2, i - 1, j) + 1)
levenshteinDistance(str1, str2) == matrix(str1, str2, Len(str2), Len(str1))

\* Mutant of similarityRatio: without the `s1 === s2` shortcut and with the
\* distance of the untrimmed strings.
similarityRatioUntrimmed(str1, str2) ==
    IF ~Present(str1) \/ ~Present(str2) THEN 0
    ELSE One - (One * levenshteinDistance(str1, str2)) \div Max(Len(str1), Len(str2))

\* similarityRatio(str1, str2)
similarityRatio(str1, str2) ==
    IF ~Present(str1) \/ ~Present(str2) THEN 0
    ELSE LET s1 == trim(toLowerCase(str1))
             s2 == trim(toLowerCase(str2))
             maxLength == Max(Len(s1), Len(s2))
         IN IF s1 = s2 THEN One
            ELSE IF maxLength = 0 THEN One
            ELSE One - (One * levenshteinDistance(s1, s2)) \div maxLength

\* The state of findBestMatch's loop after the candidates before the i-th.
NoBest == [bestMatch |-> NullString, bestScore |-> 0, bestIndex |-> -1]
RECURSIVE bestAfter(_, _, _)
bestAfter(query, candidates, i) ==
    IF i = 0 THEN NoBest
    ELSE LET best == bestAfter(query, candidates, i - 1)
             candidate == candidates[i]
             score == similarityRatio(query, candidate)
         IN IF ~Present(candidate) THEN best
            ELSE IF score > best.bestScore
                 THEN [bestMatch |-> candidate, bestScore |-> score,
                       bestIndex |-> i - 1]
            ELSE best

\* findBestMatch(query, candidates, threshold); NoCandidates is an absent
\* candidates argument, NoMatchFound the null it returns.
NoCandidates == <<<<"undefined">>>>
NoMatchFound == [found |-> FALSE]
findBestMatch(query, candidates, threshold) ==
    IF ~Present(query) \/ candidates = NoCandidates \/ Len(candidates) = 0
    THEN NoMatchFound
    ELSE LET best == bestAfter(query, candidates, Len(candidates))
         IN IF best.bestScore >= threshold
            THEN [found |-> TRUE, match |-> best.bestMatch,
                  score |-> best.bestScore, index |-> best.bestIndex]
            ELSE NoMatchFound

\* Mutant of calculateMatchScore: the mean is always taken over both fields.
calculateMatchScoreOfBoth(query, candidate) ==
    ((IF Present(query.artist) /\ Present(candidate.artist)
      THEN similarityRatio(query.artist, candidate.artist) ELSE 0)
     + (IF Present(query.song) /\ Present(candidate.song)
        THEN similarityRatio(query.song, candidate.song) ELSE 0)) \div 2

\* calculateMatchScore(query, candidate)
calculateMatchScore(query, candidate) ==
    LET qArtist == query.artist
        qSong == query.song
        cArtist == candidate.artist
        cSong == candidate.song
        artistScore == IF Present(qArtist) /\ Present(cArtist)
                       THEN similarityRatio(qArtist, cArtist) ELSE 0
        songScore == IF Present(qSong) /\ Present(cSong)
                     THEN similarityRatio(qSong, cSong) ELSE 0
    IN  IF ~Present(qArtist) /\ ~Present(cArtist)
        THEN (IF Present(qSong) /\ Present(cSong)
              THEN similarityRatio(qSong, cSong) ELSE 0)
        ELSE IF ~Present(qSong) /\ ~Present(cSong)
        THEN (IF Present(qArtist) /\ Present(cArtist)
              THEN similarityRatio(qArtist, cArtist) ELSE 0)
        ELSE (artistScore + songScore) \div 2

\* ------------------------------------- the pure functions, called once
\* The longest title made of single characters.
MaxTitleLength == 4
\* The longest text on either side of a " by ".
MaxSideLength == 2
\* The longest undecorated part of a decorated title.
MaxBaseLength == 3
\* The most decorations and spaces stacked at the end of a title.
MaxStackLength == 3

SeqsUpTo(S, n) == UNION {[1 .. m -> S] : m \in 0 .. n}

TitleChars == {"b", "y", " ", "-", ":", "|"}
PlainTitles == SeqsUpTo(TitleChars, MaxTitleLength)
ByTitles ==
    {x \o <<" ", "b", "y", " ">> \o y :
        x \in SeqsUpTo(TitleChars, MaxSideLength) \ {<<>>},
        y \in SeqsUpTo(TitleChars, MaxSideLength) \ {<<>>}}
DecoratedTitles ==
    {base \o stack :
        base \in SeqsUpTo({"B", "b", "-", "\t"}, MaxBaseLength),
        stack \in SeqsUpTo({"(HD)", "(4k)", "(remix)", " "}, MaxStackLength)}
Titles == PlainTitles \cup ByTitles \cup DecoratedTitles \cup {NullString}
ChannelTitles ==
    {<<>>, NullString, <<"b">>, <<"B", "VEVO">>, <<"VEVO">>, <<"y", " ", "Music">>}

Returned(v) == [done |-> TRUE, value |-> v]

\* A call parseVideoTitle(title, channelTitle) ...
TitleInit ==
    /\ CacheInit /\ RateIdle /\ NoRequest
    /\ args \in [fn : {"parseVideoTitle"}, title : Titles, channelTitle : ChannelTitles]
    /\ result = Pending
\* ... returns.
ParseVideoTitle ==
    /\ args.fn = "parseVideoTitle"
    /\ ~result.done
    /\ result' = Returned(parseVideoTitle(args.title, args.channelTitle))
    /\ UNCHANGED <<args, cacheVars, rateVars, appVars, paging>>
TitleNext == ParseVideoTitle
TitleSpec == TitleInit /\ [][TitleNext]_vars

\* ------------------------------------------------------ claims C16, C17
\* parseVideoTitle has returned for a title that is not empty.
ParsedTitle == args.fn = "parseVideoTitle" /\ result.done /\ Present(args.title)
\* A separator c of the cleaned title has text before its first occurrence
\* and text after it.
Separates(cleaned, c) ==
    IndexOf(cleaned, c) > 1 /\ IndexOf(cleaned, c) < Len(cleaned)
Before(cleaned, c) == trim(SubSeq(cleaned, 1, IndexOf(cleaned, c) - 1))
After(cleaned, c) == trim(SubSeq(cleaned, IndexOf(cleaned, c) + 1, Len(cleaned)))
\* The patterns in the order of the claim, and the one that applies first.
Applies(cleaned, channelTitle) ==
    << Separates(cleaned, "-"), ByPlaces(cleaned) # {}, Separates(cleaned, ":"),
       Separates(cleaned, "|"), Present(channelTitle), TRUE >>
PatternNames == <<"dash", "by", "colon", "pipe", "channel", "last">>
FirstApplicable(cleaned, channelTitle) ==
    PatternNames[CHOOSE i \in 1 .. 6 :
                    /\ Applies(cleaned, channelTitle)[i]
                    /\ \A j \in 1 .. (i - 1) : ~Applies(cleaned, channelTitle)[j]]

\* C16, as claimed: every title whose cleaned form contains both a '-' and a
\* ':' is resolved by the dash pattern: artist = the text before the dash,
\* song = the text after it.
C16_DashAndColonIsDash ==
    ParsedTitle =>
        LET cleaned == cleanTitle(args.title) IN
        (IndexOf(cleaned, "-") > 0 /\ IndexOf(cleaned, ":") > 0)
        => /\ result.value.pattern = "dash"
           /\ result.value.artist = Before(cleaned, "-")
           /\ result.value.song = After(cleaned, "-")

\* C16, amended: the patterns are tried in the order dash, by, colon, pipe,
\* channel fallback, last resort and the first applicable one wins; the dash
\* pattern applies when the first '-' of the cleaned title has text before
\* it and text after it, and then (whatever ':' the title contains) artist =
\* the text before that dash, song = the text after it.
C16_FirstApplicableWins ==
    ParsedTitle =>
        LET cleaned == cleanTitle(args.title) IN
        /\ result.value.pattern = FirstApplicable(cleaned, args.channelTitle)
        /\ Separates(cleaned, "-")
           => /\ result.value.pattern = "dash"
              /\ result.value.artist = Before(cleaned, "-")
              /\ result.value.song = After(cleaned, "-")

\* C16's case: a title with a ':' before its '-', both with text around
\* them, so that the colon pattern applies too, has been resolved by the dash
\* pattern.
C16_Witness ==
    /\ ParsedTitle
    /\ LET cleaned == cleanTitle(args.title) IN
       /\ Separates(cleaned, ":") /\ Separates(cleaned, "-")
       /\ IndexOf(cleaned, ":") < IndexOf(cleaned, "-")
       /\ result.value.pattern = "dash"

\* The decorations at the end of a lowercased title, innermost first, and
\* the title without its last decoration.
IsDecoration(c) == \E i \in DOMAIN COMMON_SUFFIXES : COMMON_SUFFIXES[i] = c
RECURSIVE StackedAtEnd(_)
StackedAtEnd(t) ==
    LET u == trimEnd(t) IN
    IF u # <<>> /\ IsDecoration(u[Len(u)])
    THEN Append(StackedAtEnd(SubSeq(u, 1, Len(u) - 1)), u[Len(u)])
    ELSE <<>>
WithoutLast(t) == SubSeq(trimEnd(t), 1, Len(trimEnd(t)) - 1)

\* C17: when several known decorations are stacked at the end of a title, one
\* parse strips the last one only, in whatever order they are stacked: the
\* result is that of the title without its last decoration, cleaned of its
\* whitespace and parsed.
C17_OnlyLastDecorationStripped ==
    ParsedTitle =>
        LET t == toLowerCase(args.title) IN
        Len(StackedAtEnd(t)) >= 2
        => result.value = parseCleaned(collapseWhitespace(trim(WithoutLast(t))),
                                       args.channelTitle)

\* -------------------------------------------- the matcher, called once
MatcherChars == {"b", "y", "B", " "}
Strings == SeqsUpTo(MatcherChars, MaxStringLength) \cup {NullString}
ShortStrings == SeqsUpTo({"b", "y"}, MaxStringLength - 1) \cup {NullString}
CandidateLists == SeqsUpTo(ShortStrings, MaxCandidates) \cup {NoCandidates}
Thresholds == 0 .. One
Tracks == [artist : ShortStrings, song : ShortStrings]

\* One call of similarityRatio, findBestMatch or calculateMatchScore ...
MatcherInit ==
    /\ CacheInit /\ RateIdle /\ NoRequest
    /\ args \in [fn : {"similarityRatio"}, str1 : Strings, str2 : Strings]
          \cup [fn : {"findBestMatch"}, query : ShortStrings,
                candidates : CandidateLists, threshold : Thresholds]
          \cup [fn : {"calculateMatchScore"}, query : Tracks, candidate : Tracks]
    /\ result = Pending
\* ... returns.
SimilarityRatio ==
    /\ args.fn = "similarityRatio"
    /\ ~result.done
    /\ result' = Returned(similarityRatio(args.str1, args.str2))
    /\ UNCHANGED <<args, cacheVars, rateVars, appVars, paging>>
FindBestMatch ==
    /\ args.fn = "findBestMatch"
    /\ ~result.done
    /\ result' = Returned(findBestMatch(args.query, args.candidates, args.threshold))
    /\ UNCHANGED <<args, cacheVars, rateVars, appVars, paging>>
CalculateMatchScore ==
    /\ args.fn = "calculateMatchScore"
    /\ ~result.done
    /\ result' = Returned(calculateMatchScore(args.query, args.candidate))
    /\ UNCHANGED <<args, cacheVars, rateVars, appVars, paging>>
MatcherNext == SimilarityRatio \/ FindBestMatch \/ CalculateMatchScore
MatcherSpec == MatcherInit /\ [][MatcherNext]_vars

\* ------------------------------------------------ claims C18, C19, C20
Called(fn) == args.fn = fn /\ result.done
\* Lowercased and trimmed.
Normal(s) == trim(toLowerCase(s))

\* C18, as claimed: similarityRatio(a, b) = 1.0 for any two strings that are
\* equal after lowercasing and trimming; in particular similarityRatio(s, s)
\* = 1.0 for every string s.
C18_EqualIsOne ==
    (/\ Called("similarityRatio")
     /\ args.str1 # NullString /\ args.str2 # NullString
     /\ Normal(args.str1) = Normal(args.str2))
    => result.value = One

\* C18, amended: similarityRatio(a, b) = 1.0 for any two non-empty strings
\* that are equal after lowercasing and trimming, and 0 when a or b is the
\* empty string.
C18_NonEmptyEqualIsOne ==
    (Called("similarityRatio") /\ args.str1 # NullString /\ args.str2 # NullString)
    => /\ (args.str1 # <<>> /\ args.str2 # <<>> /\ Normal(args.str1) = Normal(args.str2))
          => result.value = One
       /\ (args.str1 = <<>> \/ args.str2 = <<>>) => result.value = 0

\* C18's case: two different non-empty strings, equal after lowercasing and
\* trimming, have been compared.
C18_Witness ==
    /\ Called("similarityRatio")
    /\ Present(args.str1) /\ Present(args.str2)
    /\ args.str1 # args.str2 /\ Normal(args.str1) = Normal(args.str2)
    /\ Len(args.str1) # Len(args.str2) /\ toLowerCase(args.str1) # args.str1
    /\ result.value = One

\* The positions (from 1) of the non-empty candidates, the highest ratio
\* among them, and the first position that attains it.
NonEmpty(candidates) == {i \in DOMAIN candidates : Present(candidates[i])}
Highest(query, candidates) ==
    CHOOSE r \in 0 .. One :
        /\ \E i \in NonEmpty(candidates) : similarityRatio(query, candidates[i]) = r
        /\ \A i \in NonEmpty(candidates) : similarityRatio(query, candidates[i]) <= r
FirstHighest(query, candidates) ==
    CHOOSE i \in NonEmpty(candidates) :
        /\ similarityRatio(query, candidates[i]) = Highest(query, candidates)
        /\ \A j \in NonEmpty(candidates) :
               similarityRatio(query, candidates[j]) = Highest(query, candidates)
               => i <= j

\* C19: findBestMatch returns null exactly when query or candidates is empty
\* or absent, or the highest ratio over the non-empty candidates is strictly
\* below the threshold; otherwise it returns the first non-empty candidate
\* that attains the highest ratio, with that ratio and its original index.
\* (Stated for lists with a non-empty candidate.)
C19_BestMatchOrNull ==
    Called("findBestMatch") =>
        LET query == args.query
            candidates == args.candidates
            absent == \/ ~Present(query) \/ candidates = NoCandidates
                      \/ Len(candidates) = 0
        IN  /\ absent => ~result.value.found
            /\ (~absent /\ NonEmpty(candidates) # {}) =>
                 /\ ~result.value.found
                        <=> Highest(query, candidates) < args.threshold
                 /\ result.value.found =>
                        /\ result.value.index = FirstHighest(query, candidates) - 1
                        /\ result.value.match = candidates[result.value.index + 1]
                        /\ result.value.score
                               = similarityRatio(query, result.value.match)

\* The fields that are not absent on both sides, and what each contributes.
Comparable(query, candidate) ==
    {f \in {"artist", "song"} : Present(query[f]) \/ Present(candidate[f])}
Contribution(query, candidate, f) ==
    IF f \notin Comparable(query, candidate) THEN 0
    ELSE IF Present(query[f]) /\ Present(candidate[f])
         THEN similarityRatio(query[f], candidate[f]) ELSE 0

\* C20: calculateMatchScore is the unweighted mean, over the fields of
\* {artist, song} that are not absent on both sides, of the similarityRatio
\* of the field's pair (0 when one side is absent); it is 0 when both fields
\* are absent on both sides, lies in [0, 1] and is symmetric.
C20_MeanOfComparableFields ==
    Called("calculateMatchScore") =>
        LET query == args.query
            candidate == args.candidate
            n == Cardinality(Comparable(query, candidate))
        IN  /\ result.value =
                   IF n = 0 THEN 0
                   ELSE (Contribution(query, candidate, "artist")
                         + Contribution(query, candidate, "song")) \div n
            /\ result.value >= 0 /\ result.value <= One
            /\ result.value = calculateMatchScore(candidate, query)

\* C20's case: exactly one field is comparable, and its strings are similar
\* but not equal.
C20_Witness ==
    /\ Called("calculateMatchScore")
    /\ Cardinality(Comparable(args.query, args.candidate)) = 1
    /\ result.value > 0 /\ result.value < One

\* ================================== Part 3: the MusicBrainz rate limit
\* The clock advances by ClockStep, up to MaxClock.
ClockStep == 500
MaxClock == 3000
\* The most requests sent.
MaxRequests == 3

\* A request leaves: `this.lastRequestTime = Date.now()`, then axios.get in
\* the same turn of the event loop.
SendRequest(c) ==
    /\ lastRequestTime' = clock
    /\ requests' = Append(requests, clock)
    /\ calls' = [calls EXCEPT ![c] = [pc |-> "sent", due |-> 0]]

\* searchRecording, searchArtist or getRecordingById, its cache missed,
\* calls enforceRateLimit(): up to the await of the timer, or to the end when
\* there is nothing to wait for.
EnforceRateLimit(c) ==
    /\ calls[c].pc = "idle"
    /\ Len(requests) + Cardinality({d \in Calls : calls[d].pc = "waiting"}) < MaxRequests
    /\ LET timeSinceLastRequest == clock - lastRequestTime IN
       IF timeSinceLastRequest < minRequestInterval
       THEN /\ calls' = [calls EXCEPT ![c] =
                           [pc |-> "waiting",
                            due |-> clock + (minRequestInterval - timeSinceLastRequest)]]
            /\ UNCHANGED <<lastRequestTime, requests>>
       ELSE SendRequest(c)
    /\ UNCHANGED <<clock, cacheVars, fnVars, appVars, paging>>

\* The timer of setTimeout(resolve, waitTime) fires, not before it is due.
TimerFires(c) ==
    /\ calls[c].pc = "waiting"
    /\ clock >= calls[c].due
    /\ SendRequest(c)
    /\ UNCHANGED <<clock, cacheVars, fnVars, appVars, paging>>

\* The request is answered and the call returns.
Answer(c) ==
    /\ calls[c].pc = "sent"
    /\ calls' = [calls EXCEPT ![c] = [pc |-> "idle", due |-> 0]]
    /\ UNCHANGED <<clock, lastRequestTime, requests, cacheVars, fnVars, appVars, paging>>

ClockTick ==
    /\ clock + ClockStep <= MaxClock
    /\ clock' = clock + ClockStep
    /\ UNCHANGED <<lastRequestTime, calls, requests, cacheVars, fnVars, appVars, paging>>

RateNext ==
    \/ \E c \in Calls : EnforceRateLimit(c)
    \/ \E c \in Calls : TimerFires(c)
    \/ \E c \in Calls : Answer(c)
    \/ ClockTick
RateSpec == Init /\ [][RateNext]_vars

\* C15: any two requests sent to the MusicBrainz API are at least
\* minRequestInterval (1000 ms) apart, however the calls interleave.
C15_RequestsSpaced ==
    \A i \in DOMAIN requests : \A j \in DOMAIN requests :
        i < j => requests[j] - requests[i] >= minRequestInterval

\* ======================================================================
\* Part 4: services/music-analysis.service.js (matchVideo) and the analysis
\* routes of routes/analyze.routes.js, over the cache of Part 1.
\*
\* A request is served in one step: its cache operations run one after the
\* other with no other cache operation in flight (inflight stays empty), at
\* one reading of the clock.  `fails` says which of the request's Redis
\* commands reject (fails.get, fails.set); `found` says whether the metadata
\* services find the track.
\* ======================================================================
\* cacheService.set(cacheKey, result, 86400): 1 day for a failed match
UnmatchedTtl == 86400
\* cacheService.set(cacheKey, result, 2592000): 30 days for a match
MatchedTtl == 2592000
\* The most steps of the clock, and their lengths in seconds.
MaxElapses == 2
\* The most requests served.
MaxServed == 2
Durations == {1, UnmatchedTtl, MatchedTtl}
PlaylistIds == {<<"PL1">>}
\* `playlistId` missing from the body.
NoPlaylist == <<>>
Failures == [get : BOOLEAN, set : BOOLEAN]

\* const cacheKey = `music:match:${video.id}`
cacheKey(video) == <<"music:match:">> \o video.id
\* const cacheKey = `playlist:analysis:${playlistId}`
playlistCacheKey(playlistId) == <<"playlist:analysis:">> \o playlistId

\* cacheService.get(key) as one step: Redis answers it, unless the command
\* rejects or the reply is not JSON, and then the in-process map does.
FromRedis(k, fails) == RedisMode /\ ~fails /\ ~Unparsable(RedisGet(k))
cacheGet(k, fails) ==
    IF FromRedis(k, fails)
    THEN IF RedisGet(k) = "" THEN Null ELSE JSONparse(RedisGet(k))
    ELSE getFromMemory(k)
\* cacheService.set(key, value, ttl) as one step goes to Redis unless the
\* command rejects, and then to the in-process map.
ToRedis(fails) == RedisMode /\ ~fails
\* The maps after the writes W (of distinct keys), the in-process reads of
\* the keys `reads` having dropped their expired entries first.
WrittenKeys(W) == {w.key : w \in W}
WriteOf(W, k) == CHOOSE w \in W : w.key = k
MemoryAfterSets(reads, W) ==
    [k \in (DOMAIN MemoryAfterGet(reads)) \cup WrittenKeys(W) |->
        IF k \in WrittenKeys(W) THEN WriteOf(W, k).val ELSE memoryCache[k]]
TtlAfterSets(reads, W) ==
    [k \in (DOMAIN TtlAfterGet(reads)) \cup WrittenKeys(W) |->
        IF k \in WrittenKeys(W) THEN now + WriteOf(W, k).ttl ELSE ttlMap[k]]
RedisAfterSets(W) ==
    [k \in (DOMAIN redis) \cup WrittenKeys(W) |->
        IF k \in WrittenKeys(W)
        THEN [str |-> JSONstringify(WriteOf(W, k).val), exp |-> now + WriteOf(W, k).ttl]
        ELSE redis[k]]

\* searchAndAnalyzeTrack(artist, song): null without a lookup if either is
\* missing; null if the services find nothing or throw; the track otherwise.
searchAndAnalyzeTrack(artist, song, found) ==
    IF ~Present(artist) \/ ~Present(song)
    THEN [track |-> FALSE, lookup |-> FALSE]
    ELSE [track |-> found, lookup |-> TRUE]

\* What a call of matchVideo did and returned: hit (cacheService.get gave a
\* truthy value, kept in `stored`), parsed (parseVideoTitle ran), lookup
\* (the metadata services were asked), wrote (the TTL of its cache write, 0
\* for none), threw, and the result's cached, matched and feelsScore.
NotRun ==
    [ran |-> FALSE, hit |-> FALSE, parsed |-> FALSE, lookup |-> FALSE, wrote |-> 0,
     threw |-> FALSE, cached |-> FALSE, matched |-> FALSE, feelsScore |-> Undefined,
     stored |-> Null, memoryRead |-> FALSE]
Ran(video, fails) ==
    [NotRun EXCEPT !.ran = TRUE,
                   !.hit = Truthy(cacheGet(cacheKey(video), fails.get)),
                   !.stored = cacheGet(cacheKey(video), fails.get),
                   !.memoryRead = ~FromRedis(cacheKey(video), fails.get)]
\* const parsed = parseVideoTitle(video.title, video.channelTitle), for each
\* video whose title is a string.
ParsedTitles ==
    [video \in {v \in Videos : v.title # NotAString} |->
        parseVideoTitle(video.title, video.channelTitle)]
\* The rest of matchVideo, after a miss.
matchVideoMiss(video, run, found) ==
    LET parsed == ParsedTitles[video]
        track == searchAndAnalyzeTrack(parsed.artist, parsed.song, found)
    IN  IF video.title = NotAString THEN [run EXCEPT !.threw = TRUE]
        ELSE IF ~Present(parsed.artist) /\ ~Present(parsed.song)
        THEN [run EXCEPT !.parsed = TRUE]
        ELSE IF ~track.track
        THEN [run EXCEPT !.parsed = TRUE, !.lookup = track.lookup,
                         !.wrote = UnmatchedTtl]
        ELSE [run EXCEPT !.parsed = TRUE, !.lookup = TRUE, !.wrote = MatchedTtl,
                         !.matched = TRUE, !.feelsScore = TrackScore]

\* Mutant of matchVideo: without `if (cached) return { ...cached, cached: true }`.
matchVideoUncached(video, fails, found) ==
    matchVideoMiss(video, Ran(video, fails), found)

\* matchVideo(video)
matchVideo(video, fails, found) ==
    LET run == Ran(video, fails) IN
    IF run.hit
    THEN [run EXCEPT !.cached = TRUE,
                     !.matched = Decode(run.stored).matched,
                     !.feelsScore = Decode(run.stored).feelsScore]
    ELSE matchVideoMiss(video, run, found)

\* The result that matchVideo writes to the cache.
ResultObject(video, m) ==
    Code([kind |-> "result", id |-> video.id, matched |-> m.matched,
          feelsScore |-> m.feelsScore])
\* cacheService.set(cacheKey, result, ttl) of matchVideo, if it wrote.
MatchWrites(video, m) ==
    IF m.wrote = 0 THEN {}
    ELSE {[key |-> cacheKey(video), val |-> ResultObject(video, m), ttl |-> m.wrote]}
MatchReads(video, m) == IF m.memoryRead THEN {cacheKey(video)} ELSE {}

\* let feelsScore = 50; if (matchResult.matched && matchResult.audioFeatures)
\*   feelsScore = calculateFeelsScore(matchResult.audioFeatures)
RouteScore(m) == IF m.matched THEN m.feelsScore ELSE NeutralScore

\* The response of a route for the video, from what matchVideo did: the time
\* it was served at, the video asked for (asked) and returned (id).
Response(route, video, m) ==
    [NoResponse EXCEPT !.at = now, !.route = route, !.asked = video.id,
                       !.id = video.id, !.status = 200,
                       !.ran = m.ran, !.hit = m.hit, !.parsed = m.parsed,
                       !.lookup = m.lookup, !.wrote = m.wrote, !.threw = m.threw,
                       !.cached = m.cached, !.matched = m.matched,
                       !.stored = m.stored, !.prior = computed[video.id]]

\* What matchVideo worked out for the video, if it did.
ComputedAfter(video, m) ==
    IF m.ran /\ ~m.hit /\ ~m.threw
    THEN [computed EXCEPT ![video.id] =
            [outcome |-> IF m.matched THEN "matched" ELSE "unmatched",
             at |-> now, lookup |-> m.lookup, ttl |-> m.wrote]]
    ELSE computed

\* The request has been served: its response, and the cache it leaves.
Served(resp, comp, reads, W, fails) ==
    /\ initialized
    /\ inflight = <<>>
    /\ response.count < MaxServed
    /\ response' = [resp EXCEPT !.count = response.count + 1]
    /\ computed' = comp
    /\ IF ToRedis(fails.set)
       THEN /\ redis' = RedisAfterSets(W)
            /\ memoryCache' = MemoryAfterGet(reads)
            /\ ttlMap' = TtlAfterGet(reads)
       ELSE /\ redis' = redis
            /\ memoryCache' = MemoryAfterSets(reads, W)
            /\ ttlMap' = TtlAfterSets(reads, W)
    /\ UNCHANGED <<now, initialized, client, isRedisAvailable, cleanupTimer,
                   inflight, ret, writes, last, elapses, fnVars, rateVars, paging>>

\* POST /api/analyze/single with the video as body.  A throw of matchVideo
\* goes to next(error): no video is returned.
AnalyzeSingle(video, fails, found) ==
    /\ initialized
    /\ LET m == matchVideo(video, fails, found)
           resp == Response("single", video, m) IN
       Served(IF m.threw THEN [resp EXCEPT !.status = 500]
              ELSE [resp EXCEPT !.feelsScore = RouteScore(m)],
              ComputedAfter(video, m), MatchReads(video, m), MatchWrites(video, m),
              fails)

\* The { results, stats } that /batch keeps for the playlist.
AnalysisObject(video, resp) ==
    Code([kind |-> "analysis", id |-> video.id, matched |-> resp.matched,
          feelsScore |-> resp.feelsScore])
\* POST /api/analyze/batch with videos = [video] and playlistId (or none).
\* A throw of matchVideo is caught per video: the video is returned with
\* feelsScore 50, matched false and the error.
AnalyzeBatch(video, playlistId, fails, found) ==
    LET key == playlistCacheKey(playlistId)
        cached == IF playlistId = NoPlaylist THEN Null ELSE cacheGet(key, fails.get)
        keyReads == IF playlistId # NoPlaylist /\ ~FromRedis(key, fails.get)
                    THEN {key} ELSE {}
        m == matchVideo(video, fails, found)
        resp == [Response("batch", video, m) EXCEPT
                    !.feelsScore = IF m.threw THEN NeutralScore ELSE RouteScore(m),
                    !.matched = IF m.threw THEN FALSE ELSE m.matched]
        keep == IF playlistId = NoPlaylist THEN {}
                ELSE {[key |-> key, val |-> AnalysisObject(video, resp),
                       ttl |-> DefaultTtl]}
    IN  IF Truthy(cached)
        THEN Served([Response("batch", [video EXCEPT !.id = Decode(cached).id], NotRun)
                        EXCEPT !.asked = video.id,
                               !.playlistHit = TRUE, !.stored = cached,
                               !.matched = Decode(cached).matched,
                               !.feelsScore = Decode(cached).feelsScore],
                    computed, keyReads, {}, fails)
        ELSE Served(resp, ComputedAfter(video, m),
                    keyReads \cup MatchReads(video, m),
                    MatchWrites(video, m) \cup keep, fails)

\* POST /api/playlist/analyze for a playlist whose one video is `video`.  A
\* throw of matchVideo rejects the Promise.all: no video is returned.
AnalyzePlaylist(video, fails, found) ==
    /\ initialized
    /\ LET m == matchVideo(video, fails, found)
           resp == Response("playlist", video, m) IN
       Served(IF m.threw THEN [resp EXCEPT !.status = 500]
              ELSE [resp EXCEPT !.feelsScore = m.feelsScore],
              ComputedAfter(video, m), MatchReads(video, m), MatchWrites(video, m),
              fails)

\* Time passes; the Redis server drops the keys whose time is up.
Elapse(d) ==
    /\ elapses < MaxElapses
    /\ elapses' = elapses + 1
    /\ now' = now + d
    /\ redis' = MapDelete(redis, {k \in DOMAIN redis :
                                     redis[k].exp # 0 /\ now + d >= redis[k].exp})
    /\ UNCHANGED <<initialized, client, isRedisAvailable, memoryCache, ttlMap,
                   cleanupTimer, inflight, ret, writes, last, computed, response,
                   fnVars, rateVars, paging>>

MatchNext ==
    \/ \E url \in BOOLEAN, connectOk \in BOOLEAN : Initialize(url, connectOk)
    \/ OnRedisError
    \/ OnRedisConnect
    \/ Sweep
    \/ \E d \in Durations : Elapse(d)
    \/ \E video \in Videos, fails \in Failures, found \in BOOLEAN :
          AnalyzeSingle(video, fails, found)
    \/ \E video \in Videos, playlistId \in PlaylistIds \cup {NoPlaylist},
          fails \in Failures, found \in BOOLEAN :
          AnalyzeBatch(video, playlistId, fails, found)
    \/ \E video \in Videos, fails \in Failures, found \in BOOLEAN :
          AnalyzePlaylist(video, fails, found)
MatchSpec == Init /\ [][MatchNext]_vars

\* ------------------------------------------------ claims C11 to C14
\* The result worked out for the returned video before this request, and
\* its age when the request was served.
Prior == response.prior
Age == response.at - Prior.at
\* The request was answered with a result taken from the cache.
FromCache == response.hit \/ response.playlistHit

\* C11: when matchVideo finds an entry under music:match:<video.id>, it
\* returns that stored result with cached = true, and neither parses the
\* title, nor asks the metadata services, nor writes to the cache.
C11_CacheHitShortCircuits ==
    (response.ran /\ response.hit) =>
        /\ response.cached
        /\ Decode(response.stored).kind = "result"
        /\ Decode(response.stored).id = response.id
        /\ response.matched = Decode(response.stored).matched
        /\ ~response.parsed
        /\ ~response.lookup
        /\ response.wrote = 0
C11_Witness ==
    /\ response.route = "single"
    /\ response.hit
    /\ response.cached
    /\ response.matched
    /\ response.at > Prior.at

\* C12: after a matchVideo call that looked the track up, a repeat call for
\* the same id returns the stored result (cached, no new lookup) for 86400 s
\* if it was unmatched and 2592000 s if it was matched, and looks the track
\* up afresh once that time has passed; the first TTL is the shorter.
C12_ResultKeptForItsTtl ==
    /\ UnmatchedTtl < MatchedTtl
    /\ (response.ran /\ Prior.lookup) =>
         LET ttl == IF Prior.outcome = "matched" THEN MatchedTtl ELSE UnmatchedTtl IN
         /\ Age < ttl => /\ response.cached
                         /\ ~response.lookup
                         /\ response.matched = (Prior.outcome = "matched")
         /\ Age > ttl => response.lookup

\* C13: a request (single or batch, with or without playlistId) for a video
\* whose last result was a failure worked out more than 86400 s before is
\* not answered with a stored failure.
C13_FailureServedAtMostOneDay ==
    ( /\ response.route \in {"single", "batch"}
      /\ response.asked = response.id
      /\ Prior.outcome = "unmatched"
      /\ Age > UnmatchedTtl )
    => ~(FromCache /\ ~response.matched)

\* C14: a returned video that is unmatched, or whose analysis threw, has
\* feelsScore 50, on each of the three routes.
C14_UnmatchedOrThrownIsNeutral ==
    (response.status = 200 /\ (~response.matched \/ response.threw))
    => response.feelsScore = NeutralScore

\* ======================================================================
\* Claim C26 (Part 1, under Spec)
\* ======================================================================
\* C26: the value map and the expiry map of the in-process cache always
\* have the same keys.
C26_SameKeys == DOMAIN memoryCache = DOMAIN ttlMap
\* An entry set in the in-process map has since been dropped by its expiry
\* (a read or the sweep), while another entry is still there.
C26_Witness ==
    /\ \E k \in Keys : /\ last[k].kind \in {"set", "mset"}
                       /\ last[k].mem
                       /\ k \notin DOMAIN memoryCache
    /\ DOMAIN memoryCache # {}

\* ======================================================================
\* Claim C27 (Part 2, under TitleSpec)
\* ======================================================================
\* C27: each of artist and song returned by parseVideoTitle is null or a
\* non-empty string, never ''.
C27_NullOrNonEmpty ==
    (args.fn = "parseVideoTitle" /\ result.done) =>
        /\ result.value.artist # <<>>
        /\ result.value.song # <<>>

\* ======================================================================
\* Part 5: GenreAudioAnalyzerService (services/genre-audio-analyzer).
\*
\* A feature vector holds energy, danceability, valence, acousticness and
\* loudness as numerators over `den` (hundredths, times the number of
\* profiles averaged), so that the averages are exact; tempo is in BPM (the
\* code rounds it) and confidence in tenths.  A tag, a song and an artist are
\* sequences of tokens: words, and " " between them ("trap" is "t", "rap").
\* ======================================================================
Hundredths == 100
\* buildGenreMap(), in the order of the source; values in hundredths.
genreMap ==
    << [pattern |-> <<"metal">>, energy |-> 95, tempo |-> 160, danceability |-> 50,
        loudness |-> -500, valence |-> 50, acousticness |-> 10],
       [pattern |-> <<"heavy", " ", "metal">>, energy |-> 98, tempo |-> 170, danceability |-> 45,
        loudness |-> -400, valence |-> 40, acousticness |-> 5],
       [pattern |-> <<"death", " ", "metal">>, energy |-> 100, tempo |-> 180, danceability |-> 40,
        loudness |-> -300, valence |-> 30, acousticness |-> 2],
       [pattern |-> <<"punk">>, energy |-> 90, tempo |-> 170, danceability |-> 60,
        loudness |-> -500, valence |-> 50, acousticness |-> 15],
       [pattern |-> <<"hardcore">>, energy |-> 95, tempo |-> 180, danceability |-> 55,
        loudness |-> -400, valence |-> 40, acousticness |-> 10],
       [pattern |-> <<"rock">>, energy |-> 75, tempo |-> 130, danceability |-> 55,
        loudness |-> -600, valence |-> 60, acousticness |-> 20],
       [pattern |-> <<"hard", " ", "rock">>, energy |-> 85, tempo |-> 140, danceability |-> 60,
        loudness |-> -500, valence |-> 55, acousticness |-> 15],
       [pattern |-> <<"alternative">>, energy |-> 65, tempo |-> 120, danceability |-> 55,
        loudness |-> -700, valence |-> 50, acousticness |-> 25],
       [pattern |-> <<"electronic">>, energy |-> 80, tempo |-> 128, danceability |-> 85,
        loudness |-> -600, valence |-> 70, acousticness |-> 5],
       [pattern |-> <<"techno">>, energy |-> 85, tempo |-> 130, danceability |-> 90,
        loudness |-> -500, valence |-> 60, acousticness |-> 2],
       [pattern |-> <<"house">>, energy |-> 80, tempo |-> 125, danceability |-> 90,
        loudness |-> -600, valence |-> 75, acousticness |-> 5],
       [pattern |-> <<"trance">>, energy |-> 85, tempo |-> 138, danceability |-> 85,
        loudness |-> -500, valence |-> 70, acousticness |-> 3],
       [pattern |-> <<"dubstep">>, energy |-> 90, tempo |-> 140, danceability |-> 80,
        loudness |-> -400, valence |-> 60, acousticness |-> 2],
       [pattern |-> <<"drum", " ", "and", " ", "bass">>, energy |-> 92, tempo |-> 170, danceability |-> 85,
        loudness |-> -500, valence |-> 65, acousticness |-> 3],
       [pattern |-> <<"edm">>, energy |-> 88, tempo |-> 128, danceability |-> 90,
        loudness |-> -400, valence |-> 80, acousticness |-> 2],
       [pattern |-> <<"dance">>, energy |-> 80, tempo |-> 125, danceability |-> 92,
        loudness |-> -600, valence |-> 80, acousticness |-> 5],
       [pattern |-> <<"hip", " ", "hop">>, energy |-> 70, tempo |-> 95, danceability |-> 80,
        loudness |-> -600, valence |-> 60, acousticness |-> 10],
       [pattern |-> <<"rap">>, energy |-> 70, tempo |-> 95, danceability |-> 75,
        loudness |-> -600, valence |-> 60, acousticness |-> 10],
       [pattern |-> <<"t", "rap">>, energy |-> 75, tempo |-> 140, danceability |-> 80,
        loudness |-> -500, valence |-> 55, acousticness |-> 5],
       [pattern |-> <<"pop">>, energy |-> 65, tempo |-> 118, danceability |-> 70,
        loudness |-> -600, valence |-> 70, acousticness |-> 15],
       [pattern |-> <<"indie", " ", "pop">>, energy |-> 60, tempo |-> 115, danceability |-> 65,
        loudness |-> -700, valence |-> 65, acousticness |-> 30],
       [pattern |-> <<"synth", " ", "pop">>, energy |-> 70, tempo |-> 120, danceability |-> 75,
        loudness |-> -600, valence |-> 75, acousticness |-> 10],
       [pattern |-> <<"r&b">>, energy |-> 55, tempo |-> 90, danceability |-> 65,
        loudness |-> -800, valence |-> 60, acousticness |-> 25],
       [pattern |-> <<"soul">>, energy |-> 60, tempo |-> 95, danceability |-> 60,
        loudness |-> -800, valence |-> 65, acousticness |-> 40],
       [pattern |-> <<"funk">>, energy |-> 75, tempo |-> 110, danceability |-> 85,
        loudness |-> -700, valence |-> 75, acousticness |-> 20],
       [pattern |-> <<"jazz">>, energy |-> 45, tempo |-> 105, danceability |-> 50,
        loudness |-> -1200, valence |-> 55, acousticness |-> 70],
       [pattern |-> <<"blues">>, energy |-> 50, tempo |-> 90, danceability |-> 45,
        loudness |-> -1000, valence |-> 40, acousticness |-> 60],
       [pattern |-> <<"classical">>, energy |-> 40, tempo |-> 100, danceability |-> 20,
        loudness |-> -1500, valence |-> 50, acousticness |-> 95],
       [pattern |-> <<"orchestral">>, energy |-> 45, tempo |-> 105, danceability |-> 20,
        loudness |-> -1300, valence |-> 55, acousticness |-> 95],
       [pattern |-> <<"country">>, energy |-> 55, tempo |-> 110, danceability |-> 60,
        loudness |-> -800, valence |-> 65, acousticness |-> 60],
       [pattern |-> <<"folk">>, energy |-> 45, tempo |-> 100, danceability |-> 45,
        loudness |-> -1000, valence |-> 55, acousticness |-> 80],
       [pattern |-> <<"acoustic">>, energy |-> 40, tempo |-> 95, danceability |-> 40,
        loudness |-> -1200, valence |-> 60, acousticness |-> 90],
       [pattern |-> <<"ambient">>, energy |-> 20, tempo |-> 70, danceability |-> 30,
        loudness |-> -1800, valence |-> 50, acousticness |-> 40],
       [pattern |-> <<"chillout">>, energy |-> 25, tempo |-> 80, danceability |-> 35,
        loudness |-> -1500, valence |-> 60, acousticness |-> 35],
       [pattern |-> <<"downtempo">>, energy |-> 30, tempo |-> 85, danceability |-> 40,
        loudness |-> -1400, valence |-> 55, acousticness |-> 30],
       [pattern |-> <<"lounge">>, energy |-> 35, tempo |-> 90, danceability |-> 45,
        loudness |-> -1300, valence |-> 60, acousticness |-> 40],
       [pattern |-> <<"reggae">>, energy |-> 55, tempo |-> 80, danceability |-> 75,
        loudness |-> -800, valence |-> 70, acousticness |-> 30],
       [pattern |-> <<"latin">>, energy |-> 70, tempo |-> 115, danceability |-> 85,
        loudness |-> -700, valence |-> 75, acousticness |-> 25],
       [pattern |-> <<"salsa">>, energy |-> 75, tempo |-> 120, danceability |-> 90,
        loudness |-> -600, valence |-> 80, acousticness |-> 30],
       [pattern |-> <<"indie">>, energy |-> 55, tempo |-> 110, danceability |-> 55,
        loudness |-> -800, valence |-> 55, acousticness |-> 35],
       [pattern |-> <<"indie", " ", "rock">>, energy |-> 65, tempo |-> 120, danceability |-> 60,
        loudness |-> -700, valence |-> 60, acousticness |-> 25],
       [pattern |-> <<"experimental">>, energy |-> 50, tempo |-> 110, danceability |-> 40,
        loudness |-> -1000, valence |-> 45, acousticness |-> 30],
       [pattern |-> <<"noise">>, energy |-> 85, tempo |-> 120, danceability |-> 30,
        loudness |-> -400, valence |-> 30, acousticness |-> 10] >>

Min(a, b) == IF a <= b THEN a ELSE b
\* Math.round of the fraction n / d (d > 0): halves go up.
Round(n, d) == (2 * n + d) \div (2 * d)
\* The real number k / 100 and the real number k, over the denominator den.
Part(k, den) == k * (den \div Hundredths)
Whole(k, den) == k * den

\* genres.join(' ')
RECURSIVE join(_)
join(genres) ==
    IF genres = <<>> THEN <<>>
    ELSE IF Len(genres) = 1 THEN genres[1]
    ELSE genres[1] \o <<" ">> \o join(Tail(genres))

\* The profiles whose pattern genreStr includes.
matchedFeatures(genreStr) ==
    {i \in DOMAIN genreMap : includes(genreStr, genreMap[i].pattern)}
RECURSIVE SumOf(_, _)
SumOf(S, name) ==
    IF S = {} THEN 0
    ELSE LET i == CHOOSE i \in S : TRUE IN genreMap[i][name] + SumOf(S \ {i}, name)
\* this.genreMap[pattern]
Profile(pattern) ==
    LET p == genreMap[CHOOSE i \in DOMAIN genreMap : genreMap[i].pattern = pattern]
    IN  [energy |-> p.energy, tempo |-> p.tempo, danceability |-> p.danceability,
         loudness |-> p.loudness, valence |-> p.valence,
         acousticness |-> p.acousticness, den |-> Hundredths]

\* analyzeGenres(genres)
analyzeGenres(genres) ==
    LET matched == matchedFeatures(toLowerCase(join(genres)))
        count == Cardinality(matched)
    IN  IF count = 0 THEN Profile(<<"pop">>)
        ELSE [energy |-> SumOf(matched, "energy"),
              tempo |-> Round(SumOf(matched, "tempo"), count),
              danceability |-> SumOf(matched, "danceability"),
              loudness |-> SumOf(matched, "loudness"),
              valence |-> SumOf(matched, "valence"),
              acousticness |-> SumOf(matched, "acousticness"),
              den |-> Hundredths * count]

\* title.match(/\b(word|...)\b/): one of the words is a word of the title.
HasWord(title, words) == \E i \in DOMAIN title : title[i] \in words
Energetic(f, title) ==
    IF HasWord(title, {"rage", "aggressive", "intense", "power", "extreme", "brutal"})
    THEN [f EXCEPT !.energy = Min(Whole(1, f.den), f.energy + Part(20, f.den)),
                   !.loudness = Min(Whole(-5, f.den), f.loudness + Whole(2, f.den))]
    ELSE f
Chill(f, title) ==
    IF HasWord(title, {"chill", "calm", "relax", "peaceful", "ambient", "slow", "soft"})
    THEN [f EXCEPT !.energy = Max(Part(10, f.den), f.energy - Part(20, f.den)),
                   !.tempo = Max(60, f.tempo - 20)]
    ELSE f
Happy(f, title) ==
    IF HasWord(title, {"happy", "joy", "sunshine", "bright", "upbeat", "party"})
    THEN [f EXCEPT !.valence = Min(Whole(1, f.den), f.valence + Part(20, f.den))]
    ELSE f
Sad(f, title) ==
    IF HasWord(title, {"sad", "blue", "tears", "lonely", "heartbreak", "melancholy"})
    THEN [f EXCEPT !.valence = Max(Part(10, f.den), f.valence - Part(30, f.den)),
                   !.energy = Max(Part(20, f.den), f.energy - Part(10, f.den))]
    ELSE f
Acoustic(f, title) ==
    IF HasWord(title, {"acoustic", "unplugged", "stripped", "piano", "guitar"})
    THEN [f EXCEPT !.acousticness =
                      Min(Whole(1, f.den), f.acousticness + Part(30, f.den))]
    ELSE f
\* adjustForTitleKeywords(song, features)
adjustForTitleKeywords(song, features) ==
    IF ~Present(song) THEN features
    ELSE LET title == toLowerCase(song) IN
         Acoustic(Sad(Happy(Chill(Energetic(features, title), title), title), title),
                  title)

Vector(e, t, d, l, v, a) ==
    [energy |-> e, tempo |-> t, danceability |-> d, loudness |-> Whole(l, Hundredths),
     valence |-> v, acousticness |-> a, den |-> Hundredths]
\* inferFromNames(artist, song): `${artist} ${song}`.toLowerCase()
inferFromNames(artist, song) ==
    LET combined == toLowerCase(artist \o <<" ">> \o song) IN
    IF HasWord(combined, {"symphony", "concerto", "sonata", "mozart", "beethoven", "bach"})
    THEN Vector(40, 100, 20, -12, 50, 95)
    ELSE IF HasWord(combined, {"dj", "remix", "mix", "dubstep", "techno", "edm",
                               "electronic"})
    THEN Vector(80, 128, 85, -6, 70, 5)
    ELSE Vector(50, 120, 50, -10, 50, 50)

\* The confidence as a step function of the number of profiles that the
\* tags match (not of the number of tags).
ConfidenceOfMatches(genres) ==
    LET n == Cardinality(matchedFeatures(toLowerCase(join(genres)))) IN
    IF n = 0 THEN 3 ELSE IF n = 1 THEN 6 ELSE IF n >= 3 THEN 8 ELSE 7
\* calculateConfidence(genres) of the service, in tenths (the name
\* calculateConfidence is the title parser's in this module).
calculateGenreConfidence(genres) ==
    IF Len(genres) = 0 THEN 3
    ELSE IF Len(genres) = 1 THEN 6
    ELSE IF Len(genres) >= 3 THEN 8
    ELSE 7

WithConfidence(f, c) ==
    [energy |-> f.energy, tempo |-> f.tempo, danceability |-> f.danceability,
     loudness |-> f.loudness, valence |-> f.valence, acousticness |-> f.acousticness,
     den |-> f.den, confidence |-> c]
\* inferAudioFeatures({ artist, song, genres = [] })
inferAudioFeatures(artist, song, genres) ==
    IF Len(genres) = 0
    THEN WithConfidence(inferFromNames(artist, song), 3)
    ELSE WithConfidence(adjustForTitleKeywords(song, analyzeGenres(genres)),
                        calculateGenreConfidence(genres))

\* ------------------------------------------------------ the calls
\* The most genre tags of a call.
MaxGenres == 3
GenreTags ==
    { <<"heavy", " ", "metal">>, <<"Metal">>, <<"t", "rap">>, <<"pop">>,
      <<"noise">>, <<"zydeco">> }
GenreLists == SeqsUpTo(GenreTags, MaxGenres)
Songs ==
    { NullString, <<"b">>, <<"rage">>, <<"chill">>, <<"party">>, <<"sad">>,
      <<"piano">>, <<"sad", " ", "rage">>, <<"symphony">>, <<"remix">> }
Artists == { NullString, <<"dj">> }

\* A call inferAudioFeatures({ artist, song, genres }) ...
GenreInit ==
    /\ CacheInit /\ RateIdle /\ NoRequest
    /\ args \in [fn : {"inferAudioFeatures"}, artist : Artists, song : Songs,
                 genres : GenreLists]
    /\ result = Pending
\* ... returns.
InferAudioFeatures ==
    /\ args.fn = "inferAudioFeatures"
    /\ ~result.done
    /\ result' = Returned(inferAudioFeatures(args.artist, args.song, args.genres))
    /\ UNCHANGED <<args, cacheVars, rateVars, appVars, paging>>
GenreNext == InferAudioFeatures
GenreSpec == GenreInit /\ [][GenreNext]_vars

\* ------------------------------------------------------ claims C21, C22
\* C21: the vector returned by inferAudioFeatures has energy, danceability,
\* valence and acousticness in [0, 1], tempo in [60, 200] and loudness in
\* [-30, -5].
InUnit(x, den) == 0 <= x /\ x <= Whole(1, den)
C21_FeaturesWithinBounds ==
    (args.fn = "inferAudioFeatures" /\ result.done) =>
        LET f == result.value IN
        /\ InUnit(f.energy, f.den)
        /\ InUnit(f.danceability, f.den)
        /\ InUnit(f.valence, f.den)
        /\ InUnit(f.acousticness, f.den)
        /\ 60 <= f.tempo /\ f.tempo <= 200
        /\ Whole(-30, f.den) <= f.loudness /\ f.loudness <= Whole(-5, f.den)

\* C22: the confidence returned by inferAudioFeatures is 0.3, 0.6, 0.7 or
\* 0.8 for 0, 1, 2 or at least 3 profiles matched by the genre tags.
C22_ConfidenceByMatchedProfiles ==
    (args.fn = "inferAudioFeatures" /\ result.done) =>
        result.value.confidence = ConfidenceOfMatches(args.genres)

\* ======================================================================
\* Part 6: services/feels.calculator.js.
\*
\* A feature vector has energy, danceability, valence and acousticness in
\* hundredths, tempo in BPM and loudness in dB; a field that the object does
\* not have is Undefined, and `given` is false for a null or undefined
\* vector.  A normalized component is counted in units of 1/200, so that
\* tempo / 200 is exact.
\* ======================================================================
Units == 200
Clamp(x) == Max(0, Min(Units, x))
\* const { energy = 0.5, tempo = 120, ... } = audioFeatures
Defaulted(x, d) == IF x = Undefined THEN d ELSE x
\* The six normalized components, in units of 1/200.
Normalized(f) ==
    << Clamp(2 * Defaulted(f.energy, 50)),
       Clamp(Defaulted(f.tempo, 120)),
       Clamp(2 * Defaulted(f.danceability, 50)),
       Clamp(8 * (Defaulted(f.loudness, -10) + 30)),
       Clamp(2 * Defaulted(f.valence, 50)),
       Clamp(Units - 2 * Defaulted(f.acousticness, 50)) >>
\* The weights, in percent.
Weights == <<40, 25, 15, 10, 5, 5>>
\* The weighted combination times 100, as a real number, in units of 1/200.
Weighted(n) ==
    n[1] * Weights[1] + n[2] * Weights[2] + n[3] * Weights[3]
      + n[4] * Weights[4] + n[5] * Weights[5] + n[6] * Weights[6]
\* The code computes the combination in IEEE-754 doubles; 0.40, 0.15, 0.10
\* and 0.05 are not doubles, and the sum can come out just below the real
\* value.  That matters to Math.round only when the real value is a tie
\* (x.5).  These are the normalized components, among those of the vectors
\* of FeatureVectors below, for which the double sum of lines 44 to 51,
\* evaluated in the order of the source, is below the tie (22.499999999999996
\* for the first).
ShortOfTie ==
    { <<0, 0, 100, 200, 0, 200>>, <<0, 0, 100, 200, 100, 100>>,
      <<0, 0, 100, 200, 200, 0>>, <<0, 0, 100, 200, 200, 200>>,
      <<0, 0, 200, 0, 100, 200>>, <<0, 120, 0, 0, 100, 200>>,
      <<0, 120, 100, 0, 0, 0>>, <<0, 120, 100, 0, 0, 200>>,
      <<0, 120, 100, 0, 100, 100>>, <<0, 120, 100, 0, 200, 0>>,
      <<0, 120, 100, 0, 200, 200>>, <<0, 120, 100, 200, 0, 0>>,
      <<0, 120, 100, 200, 0, 200>>, <<0, 120, 100, 200, 200, 0>>,
      <<0, 120, 100, 200, 200, 200>>, <<100, 0, 200, 200, 200, 100>>,
      <<100, 120, 0, 200, 200, 100>> }

\* calculateFeelsScore(audioFeatures)
calculateFeelsScore(f) ==
    IF ~f.given THEN NeutralScore
    ELSE LET n == Normalized(f)
             score == Max(0, Min(100 * Units, Weighted(n)))
         IN  IF n \in ShortOfTie THEN score \div Units
             ELSE Round(score, Units)

\* getMoodLabel(score)
getMoodLabel(score) ==
    IF score < 20 THEN "Very Chill"
    ELSE IF score < 40 THEN "Relaxed"
    ELSE IF score < 60 THEN "Moderate"
    ELSE IF score < 80 THEN "Energetic"
    ELSE "Intense"

\* v.feelsScore || 50: 0 is falsy, as a missing score is.
ScoreOr50(v) ==
    IF v.feelsScore = Undefined \/ v.feelsScore = 0 THEN NeutralScore ELSE v.feelsScore
\* The comparator of sortByFeelsScore.
compare(a, b, order) ==
    IF order = "asc" THEN ScoreOr50(a) - ScoreOr50(b) ELSE ScoreOr50(b) - ScoreOr50(a)
\* Array.prototype.sort is stable: an item goes behind the items that do not
\* compare as greater.
RECURSIVE Insert(_, _, _)
Insert(s, x, order) ==
    IF s = <<>> THEN <<x>>
    ELSE IF compare(Head(s), x, order) <= 0
         THEN <<Head(s)>> \o Insert(Tail(s), x, order)
         ELSE <<x>> \o s
RECURSIVE sort(_, _)
sort(videos, order) ==
    IF videos = <<>> THEN <<>>
    ELSE Insert(sort(SubSeq(videos, 1, Len(videos) - 1), order),
                videos[Len(videos)], order)
\* sortByFeelsScore(videos, order = 'asc'); given: videos is not null.
sortByFeelsScore(given, videos, order) ==
    IF ~given \/ Len(videos) = 0 THEN <<>> ELSE sort(videos, order)

RECURSIVE SumSeq(_)
SumSeq(s) == IF s = <<>> THEN 0 ELSE Head(s) + SumSeq(Tail(s))
Count(scores, lo, hi) == Cardinality({i \in DOMAIN scores : lo <= scores[i] /\ scores[i] < hi})
Distribution(total, average, min, max, ranges) ==
    [total |-> total, average |-> average, min |-> min, max |-> max,
     chill |-> ranges[1], relaxed |-> ranges[2], moderate |-> ranges[3],
     energetic |-> ranges[4], intense |-> ranges[5]]
\* getScoreDistribution(videos)
getScoreDistribution(given, videos) ==
    IF ~given \/ Len(videos) = 0 THEN Distribution(0, 0, 0, 0, <<0, 0, 0, 0, 0>>)
    ELSE LET scores == [i \in DOMAIN videos |-> ScoreOr50(videos[i])] IN
         Distribution(Len(videos), Round(SumSeq(scores), Len(videos)),
                      CHOOSE x \in Range(scores) : \A y \in Range(scores) : x <= y,
                      CHOOSE x \in Range(scores) : \A y \in Range(scores) : x >= y,
                      << Cardinality({i \in DOMAIN scores : scores[i] < 20}),
                         Count(scores, 20, 40), Count(scores, 40, 60),
                         Count(scores, 60, 80),
                         Cardinality({i \in DOMAIN scores : scores[i] >= 80}) >>)

\* ------------------------------------------------------ the calls
\* The feature vectors: each field missing, out of range on either side, or
\* in range.
FeatureVectors ==
    [given : {TRUE}, energy : {Undefined, -50, 0, 50, 100, 150},
     tempo : {Undefined, 0, 120, 200, 300}, danceability : {Undefined, 0, 100},
     loudness : {Undefined, -40, -30, -5, 0}, valence : {Undefined, 0, 100},
     acousticness : {Undefined, 0, 100, 200}]
NoVector ==
    [given |-> FALSE, energy |-> Undefined, tempo |-> Undefined,
     danceability |-> Undefined, loudness |-> Undefined, valence |-> Undefined,
     acousticness |-> Undefined]
\* The most videos of a list, and the scores of the videos.
MaxVideos == 3
ItemScores == {Undefined, 0, 30, NeutralScore, 80}
\* A video of a list: its place in the list names it.
VideoLists ==
    UNION { {[i \in 1 .. n |-> [id |-> i, feelsScore |-> f[i]]] :
                f \in [1 .. n -> ItemScores]} : n \in 0 .. MaxVideos }

\* A call of one of the functions ...
FeelsInit ==
    /\ CacheInit /\ RateIdle /\ NoRequest
    /\ args \in [fn : {"calculateFeelsScore"}, audioFeatures : FeatureVectors \cup {NoVector}]
          \cup [fn : {"sortByFeelsScore"}, given : BOOLEAN, videos : VideoLists,
                order : {"asc", "desc"}]
          \cup [fn : {"getScoreDistribution"}, given : BOOLEAN, videos : VideoLists]
    /\ (args.fn # "calculateFeelsScore" /\ ~args.given) => args.videos = <<>>
    /\ result = Pending
\* ... returns.
CalculateFeelsScore ==
    /\ args.fn = "calculateFeelsScore"
    /\ ~result.done
    /\ result' = Returned(calculateFeelsScore(args.audioFeatures))
    /\ UNCHANGED <<args, cacheVars, rateVars, appVars, paging>>
SortByFeelsScore ==
    /\ args.fn = "sortByFeelsScore"
    /\ ~result.done
    /\ result' = Returned(sortByFeelsScore(args.given, args.videos, args.order))
    /\ UNCHANGED <<args, cacheVars, rateVars, appVars, paging>>
GetScoreDistribution ==
    /\ args.fn = "getScoreDistribution"
    /\ ~result.done
    /\ result' = Returned(getScoreDistribution(args.given, args.videos))
    /\ UNCHANGED <<args, cacheVars, rateVars, appVars, paging>>
FeelsNext == CalculateFeelsScore \/ SortByFeelsScore \/ GetScoreDistribution
FeelsSpec == FeelsInit /\ [][FeelsNext]_vars

\* ------------------------------------------------ claims C23 to C25
\* C23: calculateFeelsScore returns round(100 * (0.40 E + 0.25 T + 0.15 D +
\* 0.10 L + 0.05 V + 0.05 A)) of the clamped components, an integer in
\* [0, 100], and 50 for a null or undefined vector.
C23_RoundedWeightedSum ==
    (args.fn = "calculateFeelsScore" /\ result.done) =>
        /\ result.value \in 0 .. 100
        /\ result.value =
              IF ~args.audioFeatures.given THEN NeutralScore
              ELSE Round(Weighted(Normalized(args.audioFeatures)), Units)

\* The score of an item as the claims have it: 50 only if it has none.
ItemScore(v) == IF v.feelsScore = Undefined THEN NeutralScore ELSE v.feelsScore
\* C24: sortByFeelsScore returns a permutation of the input, in
\* non-decreasing ('asc') or non-increasing ('desc') order of score, an item
\* without a score counting as 50 and equal scores keeping their input order;
\* [] for null or empty input.
C24_StableSortedPermutation ==
    (args.fn = "sortByFeelsScore" /\ result.done) =>
        LET out == result.value IN
        /\ Len(out) = Len(args.videos)
        /\ \A i \in DOMAIN args.videos : \E j \in DOMAIN out : out[j] = args.videos[i]
        /\ \A i \in DOMAIN out : \A j \in DOMAIN out :
              i < j =>
                /\ args.order = "asc" => ItemScore(out[i]) <= ItemScore(out[j])
                /\ args.order = "desc" => ItemScore(out[i]) >= ItemScore(out[j])
                /\ ItemScore(out[i]) = ItemScore(out[j]) => out[i].id < out[j].id

\* C25: getScoreDistribution returns the number of items, the smallest and
\* largest item score, the rounded mean (an item without a score counting as
\* 50) and the number of items in each band of getMoodLabel; all 0 for null
\* or empty input.
InBand(videos, label) ==
    Cardinality({i \in DOMAIN videos : getMoodLabel(ItemScore(videos[i])) = label})
C25_DistributionOfItemScores ==
    (args.fn = "getScoreDistribution" /\ result.done) =>
        LET d == result.value
            videos == args.videos
            scores == [i \in DOMAIN videos |-> ItemScore(videos[i])]
        IN  IF videos = <<>>
            THEN d = Distribution(0, 0, 0, 0, <<0, 0, 0, 0, 0>>)
            ELSE /\ d.total = Len(videos)
                 /\ d.min \in Range(scores) /\ \A i \in DOMAIN scores : d.min <= scores[i]
                 /\ d.max \in Range(scores) /\ \A i \in DOMAIN scores : d.max >= scores[i]
                 /\ d.average = Round(SumSeq(scores), Len(videos))
                 /\ d.chill = InBand(videos, "Very Chill")
                 /\ d.relaxed = InBand(videos, "Relaxed")
                 /\ d.moderate = InBand(videos, "Moderate")
                 /\ d.energetic = InBand(videos, "Energetic")
                 /\ d.intense = InBand(videos, "Intense")
                 /\ d.chill + d.relaxed + d.moderate + d.energetic + d.intense = d.total

\* ======================================================================
\* Part 7: YouTubeService.getAllPlaylistVideos (services/youtube.service).
\*
\* The API's reply to a page fetch is an input: its nextPageToken is any
\* token or null at each fetch, so the token stream may end anywhere or
\* never.  The items of page n of a run are PageItems(n, pageSize).
\* ======================================================================
\* const maxPages = 20
maxPages == 20
\* The fetches of a run are counted up to this.
MaxFetches == 22
\* The most items of a page.
MaxPageSize == 2
PageTokens == {NullString, <<"T1">>, <<"T2">>}
\* page.items of the n-th fetch: the items <<n, 1>> .. <<n, size>>.
PageItems(n, size) == [i \in 1 .. size |-> <<n, i>>]
RECURSIVE PagesUpTo(_, _)
PagesUpTo(n, size) ==
    IF n = 0 THEN <<>> ELSE PagesUpTo(n - 1, size) \o PageItems(n, size)

\* Mutant of the loop's end: without `if (pageCount >= maxPages) break`.
LoopsWithoutLimit(pageToken, pageCount) == Present(pageToken)
\* The loop goes round again: no break, and `while (pageToken)`.
Loops(pageToken, pageCount) == ~(pageCount >= maxPages) /\ Present(pageToken)

\* A call getAllPlaylistVideos(playlistId) has started ...
PagingInit ==
    /\ CacheInit /\ RateIdle /\ NoCall
    /\ elapses = 0
    /\ computed = [i \in {VideoIds[n] : n \in DOMAIN VideoIds} |-> NeverComputed]
    /\ response = NoResponse
    /\ paging \in [pc : {"loop"}, videos : {<<>>}, pageToken : {NullString},
                   pageCount : {0}, pageSize : 0 .. MaxPageSize]
\* ... and goes once round its loop: the page is fetched (its next token
\* is nextPageToken), its items are pushed, and the loop ends or goes on.
GetPlaylistVideosPage(nextPageToken) ==
    /\ paging.pc = "loop"
    /\ paging.pageCount < MaxFetches
    /\ paging' =
          [paging EXCEPT
              !.videos = @ \o PageItems(paging.pageCount + 1, paging.pageSize),
              !.pageToken = nextPageToken,
              !.pageCount = @ + 1,
              !.pc = IF Loops(nextPageToken, paging.pageCount + 1)
                     THEN "loop" ELSE "done"]
    /\ UNCHANGED <<cacheVars, fnVars, rateVars, appVars>>
PagingNext == \E nextPageToken \in PageTokens : GetPlaylistVideosPage(nextPageToken)
PagingSpec == PagingInit /\ [][PagingNext]_vars

\* C30: getAllPlaylistVideos fetches at most 20 pages whatever tokens the
\* API returns, and returns the items of the pages fetched, in order.
C30_AtMostTwentyPages ==
    /\ paging.pageCount <= maxPages
    /\ paging.pageCount = maxPages => paging.pc = "done"
    /\ paging.pc = "done" =>
          paging.videos = PagesUpTo(paging.pageCount, paging.pageSize)
\* The call has returned after its 20th page, although the API gave a token
\* for a 21st.
C30_Witness ==
    /\ paging.pc = "done"
    /\ paging.pageCount = maxPages
    /\ Present(paging.pageToken)
    /\ paging.videos # <<>>

\* ======================================================================
\* Part 8: the cache keys of services/musicbrainz.service.js.
\*
\* A key is the sequence of the tokens of its text.  No token is made of
\* other tokens, so two keys are the same text exactly when they are the
\* same sequence.
\* ======================================================================
\* The longest artist, song, id or name of a query, in tokens.
MaxPartLength == 2
KeyParts == SeqsUpTo({"x", ":", "id"}, MaxPartLength) \ {<<>>}
\* `musicbrainz:recording:${artist}:${song}`
recordingCacheKey(artist, song) ==
    <<"musicbrainz", ":", "recording", ":">> \o artist \o <<":">> \o song
\* `musicbrainz:recording:id:${recordingId}`
recordingIdCacheKey(recordingId) ==
    <<"musicbrainz", ":", "recording", ":", "id", ":">> \o recordingId
\* `musicbrainz:artist:${artistName}`
artistCacheKey(artistName) == <<"musicbrainz", ":", "artist", ":">> \o artistName
\* A query: searchRecording(a, b), getRecordingById(a) or searchArtist(a).
Queries ==
    [service : {"searchRecording"}, a : KeyParts, b : KeyParts]
      \cup [service : {"getRecordingById", "searchArtist"}, a : KeyParts, b : {<<>>}]
\* The cache entry that the query reads and writes.
cacheKeyOf(q) ==
    IF q.service = "searchRecording" THEN recordingCacheKey(q.a, q.b)
    ELSE IF q.service = "getRecordingById" THEN recordingIdCacheKey(q.a)
    ELSE artistCacheKey(q.a)

\* Two queries of the service ...
KeysInit ==
    /\ CacheInit /\ RateIdle /\ NoRequest
    /\ args \in [fn : {"cacheKeys"}, first : Queries, second : Queries]
    /\ result = Pending
\* ... have each worked out its cache key.
CacheKeys ==
    /\ args.fn = "cacheKeys"
    /\ ~result.done
    /\ result' = Returned(<<cacheKeyOf(args.first), cacheKeyOf(args.second)>>)
    /\ UNCHANGED <<args, cacheVars, rateVars, appVars, paging>>
KeysNext == CacheKeys
KeysSpec == KeysInit /\ [][KeysNext]_vars

\* C28: two different queries (searchRecording calls with different artist
\* and song, or a searchRecording call and a getRecordingById or searchArtist
\* call) never use the same cache entry.
C28_KeysInjective ==
    (args.fn = "cacheKeys" /\ result.done /\ args.first # args.second
       /\ "searchRecording" \in {args.first.service, args.second.service})
    => result.value[1] # result.value[2]

\* ======================================================================
\* Part 9: the per-video loop of POST /api/analyze/batch, for a list of
\* videos.  What matchVideo does for each video is an input: it returns a
\* matched or unmatched result, fresh or cached, or it throws; a video that
\* is null makes it throw as well.
\* ======================================================================
\* The most videos of a request.
MaxBatch == 2
MatchKinds == {"matched", "unmatched", "cachedMatched", "cachedUnmatched", "throws"}
NullVideo == [id |-> 0, kind |-> "null"]
BatchVideos == [id : {1, 2}, kind : MatchKinds] \cup {NullVideo}
Batches == SeqsUpTo(BatchVideos, MaxBatch) \ {<<>>}
\* The loop's locals, and whether the request has failed (next(error)).
BatchStart ==
    [results |-> <<>>, errors |-> <<>>, matchedCount |-> 0, cachedCount |-> 0,
     failed |-> FALSE]
\* One round of `for (let i = 0; i < videos.length; i++)`.
BatchStep(b, video) ==
    IF b.failed THEN b
    ELSE IF video.kind = "null"
    \* matchVideo throws on video.id, and so does the catch block
    THEN [b EXCEPT !.failed = TRUE]
    ELSE IF video.kind = "throws"
    THEN [b EXCEPT !.errors = Append(@, video.id),
                   !.results = Append(@, [videoId |-> video.id,
                                          feelsScore |-> NeutralScore,
                                          matched |-> FALSE, cached |-> FALSE,
                                          error |-> TRUE])]
    ELSE LET matched == video.kind \in {"matched", "cachedMatched"}
             cached == video.kind \in {"cachedMatched", "cachedUnmatched"}
         IN  [b EXCEPT !.cachedCount = IF cached THEN @ + 1 ELSE @,
                       !.matchedCount = IF matched THEN @ + 1 ELSE @,
                       !.results = Append(@, [videoId |-> video.id,
                                              feelsScore |-> IF matched THEN TrackScore
                                                             ELSE NeutralScore,
                                              matched |-> matched, cached |-> cached,
                                              error |-> FALSE])]
RECURSIVE BatchLoop(_)
BatchLoop(list) ==
    IF list = <<>> THEN BatchStart
    ELSE BatchStep(BatchLoop(SubSeq(list, 1, Len(list) - 1)), list[Len(list)])
\* POST /api/analyze/batch with a non-empty videos array and no playlistId.
analyzeBatch(list) ==
    LET b == BatchLoop(list) IN
    IF b.failed
    THEN [status |-> 500, results |-> <<>>, errors |-> <<>>, total |-> 0,
          matched |-> 0, unmatched |-> 0, cached |-> 0]
    ELSE [status |-> 200, results |-> b.results, errors |-> b.errors,
          total |-> Len(list), matched |-> b.matchedCount,
          unmatched |-> Len(list) - b.matchedCount, cached |-> b.cachedCount]

\* A request ...
BatchInit ==
    /\ CacheInit /\ RateIdle /\ NoRequest
    /\ args \in [fn : {"analyzeBatch"}, videos : Batches]
    /\ result = Pending
\* ... is answered.
AnalyzeBatchVideos ==
    /\ args.fn = "analyzeBatch"
    /\ ~result.done
    /\ result' = Returned(analyzeBatch(args.videos))
    /\ UNCHANGED <<args, cacheVars, rateVars, appVars, paging>>
BatchNext == AnalyzeBatchVideos
BatchSpec == BatchInit /\ [][BatchNext]_vars

\* C29: /batch returns one result per input video, in input order, a video
\* whose analysis throws appearing with matched = false and one entry in
\* errors; total is the number of videos, matched + unmatched = total and
\* cached <= total.
Throwing(list) == SelectSeq(list, LAMBDA v : v.kind \in {"throws", "null"})
C29_OneResultPerVideo ==
    (args.fn = "analyzeBatch" /\ result.done) =>
        LET r == result.value
            list == args.videos
        IN  /\ r.status = 200
            /\ Len(r.results) = Len(list)
            /\ \A i \in DOMAIN list :
                  /\ r.results[i].videoId = list[i].id
                  /\ list[i].kind \in {"throws", "null"} =>
                        ~r.results[i].matched /\ r.results[i].error
            /\ r.errors = [i \in DOMAIN Throwing(list) |-> Throwing(list)[i].id]
            /\ r.total = Len(list)
            /\ r.matched + r.unmatched = r.total
            /\ r.cached <= r.total
====
